---------------------------- MODULE Spec2Model ----------------------------
(***************************************************************************)
(* State-machine model of the miniqmt trading framework: the signal        *)
(* throttle and rule evaluator of EMAStdStrategy, the last-signal memory   *)
(* of MovingAverageStrategy, RiskControl.check_signal with its daily trade *)
(* counter, and the gate-then-submit loop of main().                       *)
(*                                                                         *)
(* Python dicts are modelled as functions whose DOMAIN is the set of keys  *)
(* present, so a missing key (KeyError) and dict.get defaults are visible. *)
(* Money amounts are integers; ratios are kept as numerator/denominator.   *)
(***************************************************************************)
EXTENDS Integers, Sequences, FiniteSets, TLC

(***************************************************************************)
(* Bounds of the model.                                                    *)
(***************************************************************************)
MaxDay == 1
MaxTriggers == 2
MaxCallsPerDay == 3
MaxDailyTrades == 2
MaxCycles == 2
MaxLen == 5
MaxStdTerm == 3

(***************************************************************************)
(* Program constants.                                                      *)
(***************************************************************************)
LotSize == 100
OrderAmount == 50000
SellRatioNum == 1
SellRatioDen == 2
StdTimes == 3
MaxOrderValue == 50000
MaxPositionRatioNum == 1
MaxPositionRatioDen == 10
DefaultTotalAsset == 1
DefaultAvailableCash == 0
DefaultVolume == 100

Symbols == {"AAA", "BBB"}
watch_list == <<"AAA", "BBB">>
Blacklist == {"BBB"}
SignalTypes == {"extreme_buy", "trend_buy", "partial_sell", "full_sell"}

NoDate == -1
Days == 0..MaxDay

(***************************************************************************)
(* dict.get(key, default)                                                  *)
(***************************************************************************)
Get(d, k, default) == IF k \in DOMAIN d THEN d[k] ELSE default

EmptyDict == [k \in {} |-> 0]

VARIABLES
    now,                  \* the local calendar date datetime.now().date() returns
    signal_counts,        \* EMAStdStrategy.signal_counts[type][symbol] (0 = key absent)
    last_reset_date,      \* EMAStdStrategy.last_reset_date (NoDate = attribute not set)
    max_signal_triggers,  \* EMAStdStrategy.max_signal_triggers
    calls_today,          \* history: direct check_signal_trigger calls per (type, symbol) since midnight
    trig,                 \* history: the last direct check_signal_trigger call and its result
    emitted_today,        \* history: intents emitted by the EMA/Std rules per (type, symbol) since midnight
    daily_trades,         \* RiskControl.daily_trades
    rc_today,             \* RiskControl.today
    chk,                  \* history: the last check_signal call, its inputs and its outcome
    accepted_today,       \* history: check_signal calls that accepted since midnight
    strategy,             \* main(): the generator constructed ("MA" or "EMA")
    check_trading_time,   \* EMAStdStrategy.check_trading_time
    ind,                  \* history: a compute_temp_ema_and_std call, its arguments and outcome
    qty,                  \* history: a buy quantity computation, its arguments and result
    last_signal,          \* MovingAverageStrategy.last_signal (key absent = no signal yet)
    last_emitted,         \* history: the side of the last MA-Crossover intent emitted per symbol
    pc,                   \* main(): where the loop body is ("idle", "gen", "risk")
    cyc,                  \* main(): this pass's account_info and positions
    idx,                  \* generate_signals: index of the next watch-list symbol
    signals,              \* the signals generated so far / still to be risk-checked
    orders,               \* orders handed to execute_order_async in this cycle
    cycles,               \* history: loop passes started so far
    ev                    \* history: the last per-symbol rule evaluation

confVars == <<strategy, check_trading_time>>
calcVars == <<ind, qty>>

vars == <<now, signal_counts, last_reset_date, max_signal_triggers, calls_today,
          trig, emitted_today, daily_trades, rc_today, chk, accepted_today, confVars, calcVars, last_signal, last_emitted, pc, cyc, idx, signals,
          orders, cycles, ev>>

loopVars == <<confVars, calcVars, last_signal, last_emitted, pc, cyc, idx, signals, orders, cycles, ev>>

throttleVars == <<signal_counts, last_reset_date, max_signal_triggers, calls_today, trig,
                  emitted_today>>
riskVars == <<daily_trades, rc_today, chk, accepted_today>>

ZeroCounts == [t \in SignalTypes |-> [s \in Symbols |-> 0]]

(* Mutation of _reset_daily_counts: the date test dropped, every call clears. *)
reset_daily_counts_always(th, today) ==
    [counts |-> ZeroCounts, last |-> today]

(***************************************************************************)
(* EMAStdStrategy._reset_daily_counts on the throttle state                *)
(* th = [counts, last], at calendar date today.                            *)
(***************************************************************************)
reset_daily_counts(th, today) ==
    IF th.last = NoDate \/ th.last # today
    THEN [counts |-> ZeroCounts, last |-> today]
    ELSE th

(* Mutation of check_signal_trigger: the budget test off by one (> for >=). *)
check_signal_trigger_gt(th, today, symbol, signal_type) ==
    LET t1 == reset_daily_counts(th, today)
        current_count == t1.counts[signal_type][symbol]
    IN  IF current_count > max_signal_triggers
        THEN [ok |-> FALSE, th |-> t1]
        ELSE [ok |-> TRUE,
              th |-> [t1 EXCEPT !.counts[signal_type][symbol] = current_count + 1]]

(* Mutation of check_signal_trigger: a granted call is counted for every symbol. *)
check_signal_trigger_per_type(th, today, symbol, signal_type) ==
    LET t1 == reset_daily_counts(th, today)
        current_count == t1.counts[signal_type][symbol]
    IN  IF current_count >= max_signal_triggers
        THEN [ok |-> FALSE, th |-> t1]
        ELSE [ok |-> TRUE,
              th |-> [t1 EXCEPT !.counts[signal_type] =
                                   [s \in Symbols |-> t1.counts[signal_type][s] + 1]]]

(* Mutation of check_signal_trigger: a granted call is not counted. *)
check_signal_trigger_uncounted(th, today, symbol, signal_type) ==
    LET t1 == reset_daily_counts(th, today)
        current_count == t1.counts[signal_type][symbol]
    IN  IF current_count >= max_signal_triggers
        THEN [ok |-> FALSE, th |-> t1]
        ELSE [ok |-> TRUE, th |-> t1]

(***************************************************************************)
(* EMAStdStrategy.check_signal_trigger: the lazy reset, then the budget    *)
(* test; returns the verdict and the throttle state it leaves.             *)
(***************************************************************************)
check_signal_trigger(th, today, symbol, signal_type) ==
    LET t1 == reset_daily_counts(th, today)
        current_count == t1.counts[signal_type][symbol]
    IN  IF current_count >= max_signal_triggers
        THEN [ok |-> FALSE, th |-> t1]
        ELSE [ok |-> TRUE,
              th |-> [t1 EXCEPT !.counts[signal_type][symbol] = current_count + 1]]

Throttle == [counts |-> signal_counts, last |-> last_reset_date]

SumOver(f, S) ==
    LET RECURSIVE Sum(_)
        Sum(T) == IF T = {} THEN 0
                  ELSE LET x == CHOOSE y \in T : TRUE IN f[x] + Sum(T \ {x})
    IN  Sum(S)

TotalCalls ==
    SumOver([t \in SignalTypes |-> SumOver(calls_today[t], Symbols)], SignalTypes)

NoTrig == [symbol |-> "", signal_type |-> "", result |-> FALSE, nth |-> 0,
           prev |-> 0, cleared |-> FALSE, date |-> NoDate]

(***************************************************************************)
(* A caller invokes check_signal_trigger(symbol, signal_type).             *)
(***************************************************************************)
CallCheckSignalTrigger(symbol, signal_type) ==
    /\ TotalCalls < MaxCallsPerDay
    /\ LET r == check_signal_trigger(Throttle, now, symbol, signal_type)
       IN  /\ signal_counts' = r.th.counts
           /\ last_reset_date' = r.th.last
           /\ calls_today' = [calls_today EXCEPT ![signal_type][symbol] = @ + 1]
           /\ trig' = [symbol |-> symbol, signal_type |-> signal_type,
                       result |-> r.ok,
                       nth |-> calls_today[signal_type][symbol] + 1,
                       prev |-> signal_counts[signal_type][symbol],
                       cleared |-> (last_reset_date # now /\ signal_counts # ZeroCounts),
                       date |-> now]
    /\ UNCHANGED <<now, max_signal_triggers, emitted_today, riskVars, loopVars>>

(***************************************************************************)
(* The local calendar date advances (the clock never moves backward).      *)
(***************************************************************************)
Tick ==
    /\ now < MaxDay
    /\ now' = now + 1
    /\ calls_today' = ZeroCounts
    /\ emitted_today' = ZeroCounts
    /\ accepted_today' = 0
    /\ UNCHANGED <<signal_counts, last_reset_date, max_signal_triggers, trig,
                   daily_trades, rc_today, chk,
                   loopVars>>

(***************************************************************************)
(* RiskControl                                                             *)
(***************************************************************************)
RiskKeys == {"symbol", "action", "price", "quantity"}

Returned(passed, reason, rc) ==
    [kind |-> "return", passed |-> passed, reason |-> reason, rc |-> rc]

Raised(exc, rc) ==
    [kind |-> "raise", passed |-> FALSE, reason |-> exc, rc |-> rc]

(***************************************************************************)
(* new_ratio > max_ratio for new_ratio = amount / total_asset and          *)
(* max_ratio = MaxPositionRatioNum / MaxPositionRatioDen (total_asset # 0).*)
(***************************************************************************)
RatioExceeds(amount, total_asset) ==
    IF total_asset > 0
    THEN amount * MaxPositionRatioDen > MaxPositionRatioNum * total_asset
    ELSE amount * MaxPositionRatioDen < MaxPositionRatioNum * total_asset

(* Mutation of _update_daily_statistics: the day-rollover reset lost. *)
update_daily_statistics_no_reset(rc, today) ==
    [rc EXCEPT !.daily_trades = @ + 1]

(***************************************************************************)
(* RiskControl._update_daily_statistics on rc = [daily_trades, today].     *)
(***************************************************************************)
update_daily_statistics(rc, today) ==
    LET r1 == IF today # rc.today
              THEN [daily_trades |-> 0, today |-> today]
              ELSE rc
    IN  [r1 EXCEPT !.daily_trades = @ + 1]

(* Mutation of check_signal: the order-value rule tested before the blacklist. *)
check_signal_value_first(rc, today, signal, account_info, positions) ==
    IF ~(RiskKeys \subseteq DOMAIN signal)
    THEN Raised("KeyError", rc)
    ELSE
    LET symbol == signal["symbol"]
        action == signal["action"]
        value == signal["price"] * signal["quantity"]
        position_value == Get(Get(positions, symbol, EmptyDict), "market_value", 0)
        total_asset == Get(account_info, "total_asset", DefaultTotalAsset)
        available_cash == Get(account_info, "available_cash", DefaultAvailableCash)
    IN  IF value > MaxOrderValue
        THEN Returned(FALSE, "max_order_value", rc)
        ELSE IF symbol \in Blacklist
        THEN Returned(FALSE, "blacklist", rc)
        ELSE IF rc.daily_trades >= MaxDailyTrades
        THEN Returned(FALSE, "max_daily_trades", rc)
        ELSE IF action = "buy" /\ total_asset = 0
        THEN Raised("ZeroDivisionError", rc)
        ELSE IF action = "buy" /\ RatioExceeds(position_value + value, total_asset)
        THEN Returned(FALSE, "position_ratio", rc)
        ELSE IF action = "buy" /\ value > available_cash
        THEN Returned(FALSE, "insufficient_cash", rc)
        ELSE Returned(TRUE, "pass", update_daily_statistics(rc, today))

(* Mutation of check_signal: the order-value cap tested with >= for >. *)
check_signal_value_ge(rc, today, signal, account_info, positions) ==
    IF ~(RiskKeys \subseteq DOMAIN signal)
    THEN Raised("KeyError", rc)
    ELSE
    LET symbol == signal["symbol"]
        action == signal["action"]
        value == signal["price"] * signal["quantity"]
        position_value == Get(Get(positions, symbol, EmptyDict), "market_value", 0)
        total_asset == Get(account_info, "total_asset", DefaultTotalAsset)
        available_cash == Get(account_info, "available_cash", DefaultAvailableCash)
    IN  IF symbol \in Blacklist
        THEN Returned(FALSE, "blacklist", rc)
        ELSE IF rc.daily_trades >= MaxDailyTrades
        THEN Returned(FALSE, "max_daily_trades", rc)
        ELSE IF value >= MaxOrderValue
        THEN Returned(FALSE, "max_order_value", rc)
        ELSE IF action = "buy" /\ total_asset = 0
        THEN Raised("ZeroDivisionError", rc)
        ELSE IF action = "buy" /\ RatioExceeds(position_value + value, total_asset)
        THEN Returned(FALSE, "position_ratio", rc)
        ELSE IF action = "buy" /\ value > available_cash
        THEN Returned(FALSE, "insufficient_cash", rc)
        ELSE Returned(TRUE, "pass", update_daily_statistics(rc, today))

(* Mutation of check_signal: the daily cap tested with > for >=. *)
check_signal_cap_gt(rc, today, signal, account_info, positions) ==
    IF ~(RiskKeys \subseteq DOMAIN signal)
    THEN Raised("KeyError", rc)
    ELSE
    LET symbol == signal["symbol"]
        action == signal["action"]
        value == signal["price"] * signal["quantity"]
        position_value == Get(Get(positions, symbol, EmptyDict), "market_value", 0)
        total_asset == Get(account_info, "total_asset", DefaultTotalAsset)
        available_cash == Get(account_info, "available_cash", DefaultAvailableCash)
    IN  IF symbol \in Blacklist
        THEN Returned(FALSE, "blacklist", rc)
        ELSE IF rc.daily_trades > MaxDailyTrades
        THEN Returned(FALSE, "max_daily_trades", rc)
        ELSE IF value > MaxOrderValue
        THEN Returned(FALSE, "max_order_value", rc)
        ELSE IF action = "buy" /\ total_asset = 0
        THEN Raised("ZeroDivisionError", rc)
        ELSE IF action = "buy" /\ RatioExceeds(position_value + value, total_asset)
        THEN Returned(FALSE, "position_ratio", rc)
        ELSE IF action = "buy" /\ value > available_cash
        THEN Returned(FALSE, "insufficient_cash", rc)
        ELSE Returned(TRUE, "pass", update_daily_statistics(rc, today))

(***************************************************************************)
(* RiskControl.check_signal: the four subscript reads, then the rules in   *)
(* source order; the counter is touched only on the accepting path.        *)
(***************************************************************************)
check_signal(rc, today, signal, account_info, positions) ==
    IF ~(RiskKeys \subseteq DOMAIN signal)
    THEN Raised("KeyError", rc)
    ELSE
    LET symbol == signal["symbol"]
        action == signal["action"]
        value == signal["price"] * signal["quantity"]
        position_value == Get(Get(positions, symbol, EmptyDict), "market_value", 0)
        total_asset == Get(account_info, "total_asset", DefaultTotalAsset)
        available_cash == Get(account_info, "available_cash", DefaultAvailableCash)
    IN  IF symbol \in Blacklist
        THEN Returned(FALSE, "blacklist", rc)
        ELSE IF rc.daily_trades >= MaxDailyTrades
        THEN Returned(FALSE, "max_daily_trades", rc)
        ELSE IF value > MaxOrderValue
        THEN Returned(FALSE, "max_order_value", rc)
        ELSE IF action = "buy" /\ total_asset = 0
        THEN Raised("ZeroDivisionError", rc)
        ELSE IF action = "buy" /\ RatioExceeds(position_value + value, total_asset)
        THEN Returned(FALSE, "position_ratio", rc)
        ELSE IF action = "buy" /\ value > available_cash
        THEN Returned(FALSE, "insufficient_cash", rc)
        ELSE Returned(TRUE, "pass", update_daily_statistics(rc, today))

Risk == [daily_trades |-> daily_trades, today |-> rc_today]

(***************************************************************************)
(* Snapshots QMTTrader.get_account_info / get_positions can return.        *)
(***************************************************************************)
AccountInfos ==
    {EmptyDict,
     [cash |-> 50000, total_asset |-> 500000, available_cash |-> 50000],
     [cash |-> 40000, total_asset |-> 500000, available_cash |-> 40000],
     [cash |-> 50000, total_asset |-> 0, available_cash |-> 50000]}

PositionsSnapshots ==
    {EmptyDict,
     [s \in {"AAA"} |-> [volume |-> 150, market_value |-> 1500]],
     [s \in Symbols |-> IF s = "AAA" THEN [volume |-> 500, market_value |-> 5000]
                                     ELSE [volume |-> 50, market_value |-> 500]]}

(***************************************************************************)
(* Signals handed to check_signal: dicts carrying the keys it reads, and   *)
(* dicts of the shape the generators build (side under 'order_type').      *)
(***************************************************************************)
RiskSignals ==
    {sig \in [symbol : Symbols, action : {"buy", "sell"}, price : {10, 600},
              quantity : {100, 5000}] : sig.price * sig.quantity <= 60000}

GeneratorSignals ==
    [order_type : {"buy"}, quantity : {100}, price : {600}, symbol : Symbols]
    \cup
    [symbol : {"AAA"}, order_type : {"STOCK_BUY"}, price : {10}, quantity : {5000},
     reason : {"trend_buy"}]

(* Mutation of check_signal: the order value is stored into the signal dict. *)
check_signal_leaves_annotated(signal, account_info, positions) ==
    [signal |-> IF RiskKeys \subseteq DOMAIN signal
                THEN [k \in DOMAIN signal \cup {"value"} |->
                         IF k = "value" THEN signal["price"] * signal["quantity"]
                         ELSE signal[k]]
                ELSE signal,
     account_info |-> account_info, positions |-> positions]

(***************************************************************************)
(* RiskControl.check_signal, the state it leaves its three arguments in    *)
(* (Python passes the caller's dicts themselves): it subscripts the        *)
(* signal and calls dict.get on the snapshots, neither of which writes, on *)
(* every path.                                                             *)
(***************************************************************************)
check_signal_leaves(signal, account_info, positions) ==
    [signal |-> signal, account_info |-> account_info, positions |-> positions]

NoChk == [signal |-> EmptyDict, account_info |-> EmptyDict, positions |-> EmptyDict,
          before |-> 0, before_today |-> 0, date |-> NoDate,
          kind |-> "none", passed |-> FALSE, reason |-> "",
          after |-> [signal |-> EmptyDict, account_info |-> EmptyDict,
                     positions |-> EmptyDict]]

Observe(signal, account_info, positions, r) ==
    [signal |-> signal, account_info |-> account_info, positions |-> positions,
     before |-> daily_trades, before_today |-> rc_today, date |-> now,
     kind |-> r.kind, passed |-> r.passed, reason |-> r.reason,
     after |-> check_signal_leaves(signal, account_info, positions)]

(***************************************************************************)
(* A caller invokes check_signal(signal, account_info, positions).         *)
(***************************************************************************)
CallCheckSignal(signal, account_info, positions) ==
    /\ LET r == check_signal(Risk, now, signal, account_info, positions)
       IN  /\ daily_trades' = r.rc.daily_trades
           /\ rc_today' = r.rc.today
           /\ chk' = Observe(signal, account_info, positions, r)
           /\ accepted_today' = IF r.passed THEN accepted_today + 1 ELSE accepted_today
    /\ UNCHANGED <<now, throttleVars, loopVars>>

(***************************************************************************)
(* Floating point: NaN compares false with everything and absorbs '*'.     *)
(***************************************************************************)
NaN == -1

FloatGt(x, y) == x # NaN /\ y # NaN /\ x > y
FloatLt(x, y) == x # NaN /\ y # NaN /\ x < y
FloatGe(x, y) == x # NaN /\ y # NaN /\ x >= y
FloatLe(x, y) == x # NaN /\ y # NaN /\ x <= y
FloatMul(k, x) == IF x = NaN THEN NaN ELSE k * x
Abs(x) == IF x < 0 THEN -x ELSE x

(***************************************************************************)
(* int(num / den): truncation of a non-negative quotient.                  *)
(***************************************************************************)
IntOf(num, den) == num \div den

(* Mutation of the buy quantity: the rounding down to a whole lot lost. *)
BuyQuantityNoLot(current_price) == IntOf(OrderAmount, current_price)

(* Mutation of the buy quantity: rounded to the nearest lot, not down. *)
buy_quantity_nearest(order_amount, current_price) ==
    IntOf(2 * order_amount + current_price * LotSize, 2 * current_price * LotSize) * LotSize

(***************************************************************************)
(* int(order_amount / current_price / 100) * 100                           *)
(***************************************************************************)
buy_quantity(order_amount, current_price) ==
    IntOf(order_amount, current_price * LotSize) * LotSize

(***************************************************************************)
(* int(self.order_amount / current_price / 100) * 100                      *)
(***************************************************************************)
BuyQuantity(current_price) == buy_quantity(OrderAmount, current_price)

(***************************************************************************)
(* int(position * self.sell_ratio / 100) * 100                             *)
(***************************************************************************)
PartialSellQuantity(position) ==
    IntOf(position * SellRatioNum, SellRatioDen * LotSize) * LotSize

(***************************************************************************)
(* int(position / 100) * 100                                               *)
(***************************************************************************)
FullSellQuantity(position) == IntOf(position, LotSize) * LotSize

(***************************************************************************)
(* Indicator snapshots compute_temp_ema_and_std returns, in hundredths:    *)
(* the long EMA at 10.00 on both days, the short EMA at 9.80 or 10.20,     *)
(* the rolling deviation undefined, 0.05 or 0.10.                          *)
(***************************************************************************)
Snapshots ==
    {[ema_short_today |-> st, ema_long_today |-> 1000, diff_today |-> st - 1000,
      std_today |-> sd, ema_short_yesterday |-> sy, ema_long_yesterday |-> 1000] :
        st \in {980, 1020}, sy \in {980, 1020}, sd \in {NaN, 5, 10}}

(***************************************************************************)
(* market_data[symbol] as QMTTrader.get_market_data builds it (the price   *)
(* key only), or no entry for the symbol.                                  *)
(***************************************************************************)
SymbolData == {EmptyDict, [price |-> 0], [price |-> 10], [price |-> 600]}

EmaSignal(symbol, order_type, price, quantity, reason) ==
    [symbol |-> symbol, order_type |-> order_type, price |-> price,
     quantity |-> quantity, reason |-> reason]

NoTrigger(th) == [ok |-> FALSE, th |-> th]

(* Mutation of the extreme-deviation test: an undefined deviation counts as 0. *)
ExtremeCondNaNAsZero(snap) ==
    Abs(snap.diff_today) > StdTimes * (IF snap.std_today = NaN THEN 0 ELSE snap.std_today)

(***************************************************************************)
(* abs(diff_today) > self.std_times * std_today                            *)
(***************************************************************************)
ExtremeCond(snap) ==
    FloatGt(Abs(snap.diff_today), FloatMul(StdTimes, snap.std_today))

(* Mutation of _check_buy_signals: the trend-buy rule no longer asks the throttle. *)
check_buy_signals_unthrottled(th, today, symbol, snap, current_price, position) ==
    LET c1 == snap.ema_short_today < snap.ema_long_today /\ ExtremeCond(snap)
        r1 == IF c1 THEN check_signal_trigger(th, today, symbol, "extreme_buy")
                    ELSE NoTrigger(th)
        c2 == /\ snap.ema_short_yesterday < snap.ema_long_yesterday
              /\ snap.ema_short_today > snap.ema_long_today
        quantity == BuyQuantity(current_price)
    IN  IF r1.ok /\ quantity > 0
        THEN [signal |-> EmaSignal(symbol, "STOCK_BUY", current_price, quantity,
                                   "extreme_buy"),
              th |-> r1.th, consulted |-> {"extreme_buy"}, granted |-> {"extreme_buy"}]
        ELSE IF c2 /\ quantity > 0
        THEN [signal |-> EmaSignal(symbol, "STOCK_BUY", current_price, quantity,
                                   "trend_buy"),
              th |-> r1.th,
              consulted |-> IF c1 THEN {"extreme_buy"} ELSE {},
              granted |-> IF r1.ok THEN {"extreme_buy"} ELSE {}]
        ELSE [signal |-> EmptyDict, th |-> r1.th,
              consulted |-> IF c1 THEN {"extreme_buy"} ELSE {},
              granted |-> IF r1.ok THEN {"extreme_buy"} ELSE {}]

(* Mutation of _check_buy_signals: the quantity computed first, and the throttle *)
(* asked only for a quantity above zero.                                         *)
check_buy_signals_quantity_first(th, today, symbol, snap, current_price, position) ==
    LET quantity == BuyQuantity(current_price)
        c1 == snap.ema_short_today < snap.ema_long_today /\ ExtremeCond(snap)
        r1 == IF c1 /\ quantity > 0
              THEN check_signal_trigger(th, today, symbol, "extreme_buy")
              ELSE NoTrigger(th)
        c2 == /\ snap.ema_short_yesterday < snap.ema_long_yesterday
              /\ snap.ema_short_today > snap.ema_long_today
        r2 == IF c2 /\ quantity > 0
              THEN check_signal_trigger(r1.th, today, symbol, "trend_buy")
              ELSE NoTrigger(r1.th)
    IN  IF r1.ok
        THEN [signal |-> EmaSignal(symbol, "STOCK_BUY", current_price, quantity,
                                   "extreme_buy"),
              th |-> r1.th, consulted |-> {"extreme_buy"}, granted |-> {"extreme_buy"}]
        ELSE [signal |-> IF r2.ok
                         THEN EmaSignal(symbol, "STOCK_BUY", current_price, quantity,
                                        "trend_buy")
                         ELSE EmptyDict,
              th |-> r2.th,
              consulted |-> (IF c1 /\ quantity > 0 THEN {"extreme_buy"} ELSE {})
                              \cup (IF c2 /\ quantity > 0 THEN {"trend_buy"} ELSE {}),
              granted |-> (IF r1.ok THEN {"extreme_buy"} ELSE {})
                            \cup (IF r2.ok THEN {"trend_buy"} ELSE {})]

(***************************************************************************)
(* EMAStdStrategy._check_buy_signals: extreme buy, then trend buy; each    *)
(* rule asks the throttle only when its condition holds (Python's 'and'),  *)
(* and computes the quantity only after the throttle said yes.             *)
(***************************************************************************)
check_buy_signals(th, today, symbol, snap, current_price, position) ==
    LET c1 == snap.ema_short_today < snap.ema_long_today /\ ExtremeCond(snap)
        r1 == IF c1 THEN check_signal_trigger(th, today, symbol, "extreme_buy")
                    ELSE NoTrigger(th)
        c2 == /\ snap.ema_short_yesterday < snap.ema_long_yesterday
              /\ snap.ema_short_today > snap.ema_long_today
        r2 == IF c2 THEN check_signal_trigger(r1.th, today, symbol, "trend_buy")
                    ELSE NoTrigger(r1.th)
        quantity == BuyQuantity(current_price)
    IN  IF r1.ok /\ quantity > 0
        THEN [signal |-> EmaSignal(symbol, "STOCK_BUY", current_price, quantity,
                                   "extreme_buy"),
              th |-> r1.th, consulted |-> {"extreme_buy"}, granted |-> {"extreme_buy"}]
        ELSE [signal |-> IF r2.ok /\ quantity > 0
                         THEN EmaSignal(symbol, "STOCK_BUY", current_price, quantity,
                                        "trend_buy")
                         ELSE EmptyDict,
              th |-> r2.th,
              consulted |-> (IF c1 THEN {"extreme_buy"} ELSE {})
                              \cup (IF c2 THEN {"trend_buy"} ELSE {}),
              granted |-> (IF r1.ok THEN {"extreme_buy"} ELSE {})
                            \cup (IF r2.ok THEN {"trend_buy"} ELSE {})]

(* Mutation of _check_sell_signals: the 'position <= 0' return lost. *)
check_sell_signals_unguarded(th, today, symbol, snap, current_price, position) ==
    LET c1 == snap.ema_short_today > snap.ema_long_today /\ ExtremeCond(snap)
        r1 == IF c1 THEN check_signal_trigger(th, today, symbol, "partial_sell")
                    ELSE NoTrigger(th)
        q1 == PartialSellQuantity(position)
        c2 == /\ snap.ema_short_yesterday > snap.ema_long_yesterday
              /\ snap.ema_short_today < snap.ema_long_today
        r2 == IF c2 THEN check_signal_trigger(r1.th, today, symbol, "full_sell")
                    ELSE NoTrigger(r1.th)
        q2 == FullSellQuantity(position)
    IN  IF r1.ok /\ q1 > 0
        THEN [signal |-> EmaSignal(symbol, "STOCK_SELL", current_price, q1,
                                   "partial_sell"),
              th |-> r1.th, consulted |-> {"partial_sell"}, granted |-> {"partial_sell"}]
        ELSE [signal |-> IF r2.ok /\ q2 > 0
                         THEN EmaSignal(symbol, "STOCK_SELL", current_price, q2,
                                        "full_sell")
                         ELSE EmptyDict,
              th |-> r2.th,
              consulted |-> (IF c1 THEN {"partial_sell"} ELSE {})
                              \cup (IF c2 THEN {"full_sell"} ELSE {}),
              granted |-> (IF r1.ok THEN {"partial_sell"} ELSE {})
                            \cup (IF r2.ok THEN {"full_sell"} ELSE {})]

(***************************************************************************)
(* EMAStdStrategy._check_sell_signals: nothing without a position, then    *)
(* partial sell, then full sell.                                           *)
(***************************************************************************)
check_sell_signals(th, today, symbol, snap, current_price, position) ==
    IF position <= 0
    THEN [signal |-> EmptyDict, th |-> th, consulted |-> {}, granted |-> {}]
    ELSE
    LET c1 == snap.ema_short_today > snap.ema_long_today /\ ExtremeCond(snap)
        r1 == IF c1 THEN check_signal_trigger(th, today, symbol, "partial_sell")
                    ELSE NoTrigger(th)
        q1 == PartialSellQuantity(position)
        c2 == /\ snap.ema_short_yesterday > snap.ema_long_yesterday
              /\ snap.ema_short_today < snap.ema_long_today
        r2 == IF c2 THEN check_signal_trigger(r1.th, today, symbol, "full_sell")
                    ELSE NoTrigger(r1.th)
        q2 == FullSellQuantity(position)
    IN  IF r1.ok /\ q1 > 0
        THEN [signal |-> EmaSignal(symbol, "STOCK_SELL", current_price, q1,
                                   "partial_sell"),
              th |-> r1.th, consulted |-> {"partial_sell"}, granted |-> {"partial_sell"}]
        ELSE [signal |-> IF r2.ok /\ q2 > 0
                         THEN EmaSignal(symbol, "STOCK_SELL", current_price, q2,
                                        "full_sell")
                         ELSE EmptyDict,
              th |-> r2.th,
              consulted |-> (IF c1 THEN {"partial_sell"} ELSE {})
                              \cup (IF c2 THEN {"full_sell"} ELSE {}),
              granted |-> (IF r1.ok THEN {"partial_sell"} ELSE {})
                            \cup (IF r2.ok THEN {"full_sell"} ELSE {})]

EmaSkipped(th) ==
    [signal |-> EmptyDict, th |-> th, consulted |-> {}, granted |-> {},
     skipped |-> TRUE, sell_evaluated |-> FALSE]

(* Mutation of generate_signals: the 'continue' after a buy signal lost, so *)
(* the sell rules run as well (the buy signal is still the one appended).    *)
ema_symbol_no_continue(th, today, symbol, symbol_data, history_ok, snap, positions) ==
    IF symbol_data = EmptyDict THEN EmaSkipped(th)
    ELSE IF Get(symbol_data, "price", 0) = 0 THEN EmaSkipped(th)
    ELSE IF ~history_ok THEN EmaSkipped(th)
    ELSE
    LET current_price == Get(symbol_data, "price", 0)
        position == Get(Get(positions, symbol, EmptyDict), "volume", 0)
        b == check_buy_signals(th, today, symbol, snap, current_price, position)
        s == check_sell_signals(b.th, today, symbol, snap, current_price, position)
    IN  [signal |-> IF b.signal # EmptyDict THEN b.signal ELSE s.signal, th |-> s.th,
         consulted |-> b.consulted \cup s.consulted,
         granted |-> b.granted \cup s.granted,
         skipped |-> FALSE, sell_evaluated |-> TRUE]

(***************************************************************************)
(* EMAStdStrategy.generate_signals, the loop body for one watch-list       *)
(* symbol: skip without market data, with a zero price or with too little  *)
(* history; otherwise buy rules, and sell rules only if no buy signal.     *)
(***************************************************************************)
ema_symbol(th, today, symbol, symbol_data, history_ok, snap, positions) ==
    IF symbol_data = EmptyDict THEN EmaSkipped(th)
    ELSE IF Get(symbol_data, "price", 0) = 0 THEN EmaSkipped(th)
    ELSE IF ~history_ok THEN EmaSkipped(th)
    ELSE
    LET current_price == Get(symbol_data, "price", 0)
        position == Get(Get(positions, symbol, EmptyDict), "volume", 0)
        b == check_buy_signals(th, today, symbol, snap, current_price, position)
    IN  IF b.signal # EmptyDict
        THEN [signal |-> b.signal, th |-> b.th, consulted |-> b.consulted,
              granted |-> b.granted, skipped |-> FALSE, sell_evaluated |-> FALSE]
        ELSE
        LET s == check_sell_signals(b.th, today, symbol, snap, current_price, position)
        IN  [signal |-> s.signal, th |-> s.th,
             consulted |-> b.consulted \cup s.consulted,
             granted |-> b.granted \cup s.granted,
             skipped |-> FALSE, sell_evaluated |-> TRUE]

(***************************************************************************)
(* MovingAverageStrategy                                                   *)
(***************************************************************************)
(* fast/slow moving averages at the last two bars (NaN before a window fills) *)
MovingAverages ==
    {[prev_fast |-> pf, prev_slow |-> ps, current_fast |-> cf, current_slow |-> 10] :
        pf \in {9, 10, 11}, ps \in {10, NaN}, cf \in {9, 11}}

MaPrices == {10, 600}

MaSignal(order_type, quantity, price, symbol) ==
    [order_type |-> order_type, quantity |-> quantity, price |-> price,
     symbol |-> symbol]

(* Mutation of _generate_signal: a remembered buy counts only while the   *)
(* symbol is held, so an unfilled buy is emitted again.                    *)
generate_signal_rearmed(last, stock_code, ma, current_price, positions) ==
    LET has_position == /\ stock_code \in DOMAIN positions
                        /\ Get(positions[stock_code], "volume", 0) > 0
        prev == Get(last, stock_code, "None")
    IN  IF /\ FloatLe(ma.prev_fast, ma.prev_slow)
           /\ FloatGt(ma.current_fast, ma.current_slow)
           /\ ~has_position
        THEN IF prev # "buy" \/ ~has_position
             THEN [signal |-> MaSignal("buy", DefaultVolume, current_price, stock_code),
                   last |-> [s \in DOMAIN last \cup {stock_code} |->
                                IF s = stock_code THEN "buy" ELSE last[s]]]
             ELSE [signal |-> EmptyDict, last |-> last]
        ELSE IF /\ FloatGe(ma.prev_fast, ma.prev_slow)
                /\ FloatLt(ma.current_fast, ma.current_slow)
                /\ has_position
        THEN IF prev # "sell"
             THEN [signal |-> MaSignal("sell",
                                       Get(positions[stock_code], "volume", DefaultVolume),
                                       current_price, stock_code),
                   last |-> [s \in DOMAIN last \cup {stock_code} |->
                                IF s = stock_code THEN "sell" ELSE last[s]]]
             ELSE [signal |-> EmptyDict, last |-> last]
        ELSE [signal |-> EmptyDict, last |-> last]

(* Mutation of _generate_signal: the last_signal tests dropped. *)
generate_signal_no_memory(last, stock_code, ma, current_price, positions) ==
    LET has_position == /\ stock_code \in DOMAIN positions
                        /\ Get(positions[stock_code], "volume", 0) > 0
    IN  IF /\ FloatLe(ma.prev_fast, ma.prev_slow)
           /\ FloatGt(ma.current_fast, ma.current_slow)
           /\ ~has_position
        THEN [signal |-> MaSignal("buy", DefaultVolume, current_price, stock_code),
              last |-> [s \in DOMAIN last \cup {stock_code} |->
                           IF s = stock_code THEN "buy" ELSE last[s]]]
        ELSE IF /\ FloatGe(ma.prev_fast, ma.prev_slow)
                /\ FloatLt(ma.current_fast, ma.current_slow)
                /\ has_position
        THEN [signal |-> MaSignal("sell",
                                  Get(positions[stock_code], "volume", DefaultVolume),
                                  current_price, stock_code),
              last |-> [s \in DOMAIN last \cup {stock_code} |->
                           IF s = stock_code THEN "sell" ELSE last[s]]]
        ELSE [signal |-> EmptyDict, last |-> last]

(* Mutation of _generate_signal: the golden cross needs prev_fast < prev_slow. *)
generate_signal_strict(last, stock_code, ma, current_price, positions) ==
    LET has_position == /\ stock_code \in DOMAIN positions
                        /\ Get(positions[stock_code], "volume", 0) > 0
        prev == Get(last, stock_code, "None")
    IN  IF /\ FloatLt(ma.prev_fast, ma.prev_slow)
           /\ FloatGt(ma.current_fast, ma.current_slow)
           /\ ~has_position
        THEN IF prev # "buy"
             THEN [signal |-> MaSignal("buy", DefaultVolume, current_price, stock_code),
                   last |-> [s \in DOMAIN last \cup {stock_code} |->
                                IF s = stock_code THEN "buy" ELSE last[s]]]
             ELSE [signal |-> EmptyDict, last |-> last]
        ELSE IF /\ FloatGe(ma.prev_fast, ma.prev_slow)
                /\ FloatLt(ma.current_fast, ma.current_slow)
                /\ has_position
        THEN IF prev # "sell"
             THEN [signal |-> MaSignal("sell",
                                       Get(positions[stock_code], "volume", DefaultVolume),
                                       current_price, stock_code),
                   last |-> [s \in DOMAIN last \cup {stock_code} |->
                                IF s = stock_code THEN "sell" ELSE last[s]]]
             ELSE [signal |-> EmptyDict, last |-> last]
        ELSE [signal |-> EmptyDict, last |-> last]

(* Mutation of _generate_signal: without a signal the memory follows the    *)
(* positions snapshot (no holding: the last side becomes sell).              *)
generate_signal_reconciled(last, stock_code, ma, current_price, positions) ==
    LET has_position == /\ stock_code \in DOMAIN positions
                        /\ Get(positions[stock_code], "volume", 0) > 0
        prev == Get(last, stock_code, "None")
    IN  IF /\ FloatLe(ma.prev_fast, ma.prev_slow)
           /\ FloatGt(ma.current_fast, ma.current_slow)
           /\ ~has_position
        THEN IF prev # "buy"
             THEN [signal |-> MaSignal("buy", DefaultVolume, current_price, stock_code),
                   last |-> [s \in DOMAIN last \cup {stock_code} |->
                                IF s = stock_code THEN "buy" ELSE last[s]]]
             ELSE [signal |-> EmptyDict,
                   last |-> IF has_position \/ stock_code \notin DOMAIN last THEN last
                            ELSE [last EXCEPT ![stock_code] = "sell"]]
        ELSE IF /\ FloatGe(ma.prev_fast, ma.prev_slow)
                /\ FloatLt(ma.current_fast, ma.current_slow)
                /\ has_position
        THEN IF prev # "sell"
             THEN [signal |-> MaSignal("sell",
                                       Get(positions[stock_code], "volume", DefaultVolume),
                                       current_price, stock_code),
                   last |-> [s \in DOMAIN last \cup {stock_code} |->
                                IF s = stock_code THEN "sell" ELSE last[s]]]
             ELSE [signal |-> EmptyDict,
                   last |-> IF has_position \/ stock_code \notin DOMAIN last THEN last
                            ELSE [last EXCEPT ![stock_code] = "sell"]]
        ELSE [signal |-> EmptyDict,
              last |-> IF has_position \/ stock_code \notin DOMAIN last THEN last
                       ELSE [last EXCEPT ![stock_code] = "sell"]]

(***************************************************************************)
(* MovingAverageStrategy._generate_signal: golden cross without a position *)
(* buys self.volume, death cross with a position sells the held volume;    *)
(* last_signal suppresses a repeat and is set on emission.                 *)
(***************************************************************************)
generate_signal(last, stock_code, ma, current_price, positions) ==
    LET has_position == /\ stock_code \in DOMAIN positions
                        /\ Get(positions[stock_code], "volume", 0) > 0
        prev == Get(last, stock_code, "None")
    IN  IF /\ FloatLe(ma.prev_fast, ma.prev_slow)
           /\ FloatGt(ma.current_fast, ma.current_slow)
           /\ ~has_position
        THEN IF prev # "buy"
             THEN [signal |-> MaSignal("buy", DefaultVolume, current_price, stock_code),
                   last |-> [s \in DOMAIN last \cup {stock_code} |->
                                IF s = stock_code THEN "buy" ELSE last[s]]]
             ELSE [signal |-> EmptyDict, last |-> last]
        ELSE IF /\ FloatGe(ma.prev_fast, ma.prev_slow)
                /\ FloatLt(ma.current_fast, ma.current_slow)
                /\ has_position
        THEN IF prev # "sell"
             THEN [signal |-> MaSignal("sell",
                                       Get(positions[stock_code], "volume", DefaultVolume),
                                       current_price, stock_code),
                   last |-> [s \in DOMAIN last \cup {stock_code} |->
                                IF s = stock_code THEN "sell" ELSE last[s]]]
             ELSE [signal |-> EmptyDict, last |-> last]
        ELSE [signal |-> EmptyDict, last |-> last]

(***************************************************************************)
(* EMAIndicator. Prices are integers and every value derived from them an  *)
(* exact fraction <<numerator, denominator>> in lowest terms.              *)
(***************************************************************************)
Max(a, b) == IF a >= b THEN a ELSE b

RECURSIVE GCD(_, _)
GCD(a, b) == IF b = 0 THEN a ELSE GCD(b, a % b)

Rat(n, d) == LET g == GCD(Abs(n), d) IN <<n \div g, d \div g>>
LCM(a, b) == (a \div GCD(a, b)) * b
RatAdd(x, y) ==
    LET d == LCM(x[2], y[2]) IN Rat(x[1] * (d \div x[2]) + y[1] * (d \div y[2]), d)
RatSub(x, y) ==
    LET d == LCM(x[2], y[2]) IN Rat(x[1] * (d \div x[2]) - y[1] * (d \div y[2]), d)
RatMul(x, y) == Rat(x[1] * y[1], x[2] * y[2])

(* NaN among the fractions *)
RatNaN == <<0, 0>>

(***************************************************************************)
(* EMAIndicator.ema: series.ewm(span=span, adjust=False).mean(), the       *)
(* whole EMA series. With adjust=False pandas starts at the first value    *)
(* and weighs each new value with alpha = 2 / (span + 1).                  *)
(***************************************************************************)
RECURSIVE ema(_, _)
ema(series, span) ==
    IF Len(series) = 0 THEN <<>>
    ELSE IF Len(series) = 1 THEN <<Rat(series[1], 1)>>
    ELSE LET n == Len(series)
             head == ema(SubSeq(series, 1, n - 1), span)
             y == head[n - 1]
         IN  Append(head, Rat(2 * series[n] * y[2] + (span - 1) * y[1],
                              (span + 1) * y[2]))

(* Mutation of the rolling deviation: the population deviation (divisor the *)
(* window size), which is defined for a window of one value.                 *)
rolling_std_last_population(diff, std_term) ==
    LET n == Len(diff)
    IN  IF n < std_term THEN RatNaN
        ELSE LET w == SubSeq(diff, n - std_term + 1, n)
                 RECURSIVE Sum(_), SumSq(_)
                 Sum(i) == IF i = 0 THEN <<0, 1>> ELSE RatAdd(Sum(i - 1), w[i])
                 SumSq(i) == IF i = 0 THEN <<0, 1>>
                             ELSE RatAdd(SumSq(i - 1), RatMul(w[i], w[i]))
                 total == Sum(std_term)
             IN  RatMul(RatSub(RatMul(<<std_term, 1>>, SumSq(std_term)),
                               RatMul(total, total)),
                        <<1, std_term * std_term>>)

(***************************************************************************)
(* diff.rolling(std_term, min_periods=std_term).std() at the last index:   *)
(* NaN with fewer than std_term values, and NaN for a window of one value  *)
(* (the sample deviation divides by window - 1); otherwise the sample      *)
(* variance of the last std_term values, of which the deviation is the     *)
(* square root.                                                            *)
(***************************************************************************)
rolling_std_last(diff, std_term) ==
    LET n == Len(diff)
    IN  IF n < std_term \/ std_term < 2 THEN RatNaN
        ELSE LET w == SubSeq(diff, n - std_term + 1, n)
                 RECURSIVE Sum(_), SumSq(_)
                 Sum(i) == IF i = 0 THEN <<0, 1>> ELSE RatAdd(Sum(i - 1), w[i])
                 SumSq(i) == IF i = 0 THEN <<0, 1>>
                             ELSE RatAdd(SumSq(i - 1), RatMul(w[i], w[i]))
                 total == Sum(std_term)
             IN  RatMul(RatSub(RatMul(<<std_term, 1>>, SumSq(std_term)),
                               RatMul(total, total)),
                        <<1, std_term * (std_term - 1)>>)

IndRaised(error) == [kind |-> "raise", error |-> error, snap |-> EmptyDict]
IndReturned(snap) == [kind |-> "return", error |-> "", snap |-> snap]

(* Mutation of compute_temp_ema_and_std: the last close is not replaced by *)
(* the live price.                                                          *)
compute_temp_ema_and_std_no_live(close_series, last_price, short_term, long_term, std_term) ==
    IF Len(close_series) < Max(long_term, std_term) + 2
    THEN IndRaised("ValueError")
    ELSE LET n == Len(close_series)
             ema_short == ema(close_series, short_term)
             ema_long == ema(close_series, long_term)
             diff == [i \in 1..n |-> RatSub(ema_short[i], ema_long[i])]
         IN  IndReturned([ema_short_today |-> ema_short[n],
                          ema_long_today |-> ema_long[n],
                          diff_today |-> diff[n],
                          std_today |-> rolling_std_last(diff, std_term),
                          ema_short_yesterday |-> ema_short[n - 1],
                          ema_long_yesterday |-> ema_long[n - 1]])

(* Mutation of compute_temp_ema_and_std: the length test off by one. *)
compute_temp_ema_and_std_short(close_series, last_price, short_term, long_term, std_term) ==
    IF Len(close_series) < Max(long_term, std_term) + 1
    THEN IndRaised("ValueError")
    ELSE LET n == Len(close_series)
             ser == [i \in 1..n |-> IF i = n THEN last_price ELSE close_series[i]]
             ema_short == ema(ser, short_term)
             ema_long == ema(ser, long_term)
             diff == [i \in 1..n |-> RatSub(ema_short[i], ema_long[i])]
         IN  IndReturned([ema_short_today |-> ema_short[n],
                          ema_long_today |-> ema_long[n],
                          diff_today |-> diff[n],
                          std_today |-> rolling_std_last(diff, std_term),
                          ema_short_yesterday |-> ema_short[n - 1],
                          ema_long_yesterday |-> ema_long[n - 1]])

(***************************************************************************)
(* EMAIndicator.compute_temp_ema_and_std: ValueError for a series shorter  *)
(* than max(long_term, std_term) + 2; otherwise the last close is replaced *)
(* by last_price, both EMAs and their difference are computed, and the     *)
(* values at the last and second-to-last index are returned.               *)
(***************************************************************************)
compute_temp_ema_and_std(close_series, last_price, short_term, long_term, std_term) ==
    IF Len(close_series) < Max(long_term, std_term) + 2
    THEN IndRaised("ValueError")
    ELSE LET n == Len(close_series)
             ser == [i \in 1..n |-> IF i = n THEN last_price ELSE close_series[i]]
             ema_short == ema(ser, short_term)
             ema_long == ema(ser, long_term)
             diff == [i \in 1..n |-> RatSub(ema_short[i], ema_long[i])]
         IN  IndReturned([ema_short_today |-> ema_short[n],
                          ema_long_today |-> ema_long[n],
                          diff_today |-> diff[n],
                          std_today |-> rolling_std_last(diff, std_term),
                          ema_short_yesterday |-> ema_short[n - 1],
                          ema_long_yesterday |-> ema_long[n - 1]])

ClosePrices == {1, 2}
LastPrices == {1, 3}
ShortTerms == {1, 2}
LongTerms == {2, 3}

RECURSIVE SeriesOfLen(_)
SeriesOfLen(n) ==
    IF n = 0 THEN {<<>>}
    ELSE {Append(ser, x) : ser \in SeriesOfLen(n - 1), x \in ClosePrices}

CloseSeries == UNION {SeriesOfLen(n) : n \in 0..MaxLen}

NoInd == [close_series |-> <<>>, last_price |-> 0, short_term |-> 0, long_term |-> 0,
          std_term |-> 0, kind |-> "none", error |-> "", snap |-> EmptyDict]

IndInputs ==
    {[close_series |-> ser, last_price |-> lp, short_term |-> st, long_term |-> lt,
      std_term |-> sd, kind |-> "none", error |-> "", snap |-> EmptyDict] :
        ser \in CloseSeries, lp \in LastPrices, st \in ShortTerms,
        lt \in LongTerms, sd \in 1..MaxStdTerm}

(***************************************************************************)
(* A caller invokes compute_temp_ema_and_std on the arguments drawn.       *)
(***************************************************************************)
CallCompute ==
    /\ ind.kind = "none" /\ ind # NoInd
    /\ LET r == compute_temp_ema_and_std(ind.close_series, ind.last_price,
                                         ind.short_term, ind.long_term, ind.std_term)
       IN  ind' = [ind EXCEPT !.kind = r.kind, !.error = r.error, !.snap = r.snap]
    /\ UNCHANGED <<now, throttleVars, riskVars, confVars, qty, last_signal, last_emitted, pc, cyc,
                   idx, signals, orders, cycles, ev>>

NoQty == [order_amount |-> 0, current_price |-> 0, done |-> FALSE, quantity |-> 0]

OrderAmounts == {1, 99, 100, 101, 33299, 33300, 49999, 50000}
BuyPrices == {1, 2, 3, 10, 333, 334, 499, 500, 501, 600}

QtyInputs ==
    {[order_amount |-> a, current_price |-> p, done |-> FALSE, quantity |-> 0] :
        a \in OrderAmounts, p \in BuyPrices}

(***************************************************************************)
(* A buy rule computes its quantity from the arguments drawn.              *)
(***************************************************************************)
CallBuyQuantity ==
    /\ ~qty.done /\ qty # NoQty
    /\ qty' = [qty EXCEPT !.done = TRUE,
                          !.quantity = buy_quantity(qty.order_amount, qty.current_price)]
    /\ UNCHANGED <<now, throttleVars, riskVars, confVars, ind, last_signal, last_emitted, pc, cyc,
                   idx, signals, orders, cycles, ev>>

(***************************************************************************)
(* main(): one pass of the loop body, in steps. cyc holds the locals of    *)
(* the pass; the histories chk and ev describe the current pass only.      *)
(***************************************************************************)
CycleAccountInfos ==
    {[cash |-> 50000, total_asset |-> 500000, available_cash |-> 50000]}

NoCycle == [account_info |-> EmptyDict, positions |-> EmptyDict, session |-> TRUE]

(* datetime.time(h, m) and now.time(), in seconds since midnight *)
TimeOf(h, m, sec) == h * 3600 + m * 60 + sec

(* now.weekday(): a Friday and a Saturday *)
Weekdays == {4, 5}

(* now.time(): the ends of both windows and the second before or after *)
TimesOfDay ==
    {TimeOf(9, 29, 59), TimeOf(9, 30, 0), TimeOf(11, 30, 0), TimeOf(11, 30, 1),
     TimeOf(12, 59, 59), TimeOf(13, 0, 0), TimeOf(15, 0, 0), TimeOf(15, 0, 1)}

(***************************************************************************)
(* EMAStdStrategy.is_trading_time: true without the check; otherwise false *)
(* on Saturday and Sunday, and true from 09:30 to 11:30 and from 13:00 to  *)
(* 15:00, the ends included.                                               *)
(***************************************************************************)
is_trading_time(check, weekday, time) ==
    IF ~check THEN TRUE
    ELSE IF weekday >= 5 THEN FALSE
    ELSE IF \/ (TimeOf(9, 30, 0) <= time /\ time <= TimeOf(11, 30, 0))
            \/ (TimeOf(13, 0, 0) <= time /\ time <= TimeOf(15, 0, 0))
    THEN TRUE
    ELSE FALSE

NoEv == [gen |-> "", symbol |-> "", skipped |-> TRUE, price |-> 0, position |-> 0,
         ind |-> EmptyDict, consulted |-> {}, granted |-> {},
         sell_evaluated |-> FALSE, last_before |-> "None", signal |-> EmptyDict]

(***************************************************************************)
(* The indicator snapshots a symbol's evaluation can meet: all of them     *)
(* when compute_temp_ema_and_std is reached, and a single stand-in when    *)
(* the symbol is skipped before it (none is computed then).                *)
(***************************************************************************)
SnapshotsFor(symbol_data, history_ok) ==
    IF symbol_data = EmptyDict \/ Get(symbol_data, "price", 0) = 0 \/ ~history_ok
    THEN {CHOOSE snap \in Snapshots : TRUE}
    ELSE Snapshots

(* likewise the averages and the price of a symbol with too little K-line data *)
MovingAveragesFor(kline_ok) ==
    IF kline_ok THEN MovingAverages ELSE {CHOOSE ma \in MovingAverages : TRUE}
MaPricesFor(kline_ok) ==
    IF kline_ok THEN MaPrices ELSE {CHOOSE current_price \in MaPrices : TRUE}

(* Mutation of the per-symbol loop: a skipped symbol ends the batch. *)
for_next_abort(i, skipped) ==
    IF skipped \/ i = Len(watch_list) THEN "risk" ELSE "gen"

(***************************************************************************)
(* generate_signals, 'for symbol in watch_list': after symbol i, whether   *)
(* skipped ('continue', or the exception handler) or evaluated, the loop   *)
(* goes on to the next symbol and returns after the last.                  *)
(***************************************************************************)
for_next(i, skipped) ==
    IF i = Len(watch_list) THEN "risk" ELSE "gen"

(* Mutation of main(): a new pass is started (as by a timer) without waiting *)
(* for the one in progress to return.                                        *)
BeginCycleOverlapping(account_info, positions, weekday, time, close_ok) ==
    /\ pc \in {"idle", "gen", "risk"}
    /\ cycles < MaxCycles
    /\ cycles' = cycles + 1
    /\ cyc' = [account_info |-> account_info, positions |-> positions,
               session |-> is_trading_time(TRUE, weekday, time)]
    /\ idx' = 1
    /\ signals' = <<>>
    /\ orders' = <<>>
    /\ pc' = IF strategy = "EMA"
                 /\ (~is_trading_time(check_trading_time, weekday, time) \/ ~close_ok)
             THEN "risk" ELSE "gen"
    /\ chk' = NoChk
    /\ UNCHANGED <<now, throttleVars, daily_trades, rc_today, accepted_today, confVars, calcVars,
                   last_signal, last_emitted, ev>>

(***************************************************************************)
(* The loop body starts: account and positions snapshots are read and      *)
(* generate_signals is entered, at the wall-clock weekday and time.        *)
(* EMAStdStrategy returns no signals outside trading time or when the bulk *)
(* history fetch came back empty (close_ok false); MovingAverageStrategy   *)
(* goes to its watch list at once. cyc.session records whether the clock   *)
(* is inside a session window.                                             *)
(***************************************************************************)
BeginCycle(account_info, positions, weekday, time, close_ok) ==
    /\ pc = "idle"
    /\ cycles < MaxCycles
    /\ cycles' = cycles + 1
    /\ cyc' = [account_info |-> account_info, positions |-> positions,
               session |-> is_trading_time(TRUE, weekday, time)]
    /\ idx' = 1
    /\ signals' = <<>>
    /\ orders' = <<>>
    /\ pc' = IF strategy = "EMA"
                 /\ (~is_trading_time(check_trading_time, weekday, time) \/ ~close_ok)
             THEN "risk" ELSE "gen"
    /\ chk' = NoChk
    /\ UNCHANGED <<now, throttleVars, daily_trades, rc_today, accepted_today, confVars, calcVars,
                   last_signal, last_emitted, ev>>

(***************************************************************************)
(* EMAStdStrategy.generate_signals evaluates the next watch-list symbol.   *)
(***************************************************************************)
EvalSymbolEMA(symbol_data, history_ok, snap) ==
    /\ pc = "gen" /\ strategy = "EMA"
    /\ idx <= Len(watch_list)
    /\ LET symbol == watch_list[idx]
           r == ema_symbol(Throttle, now, symbol, symbol_data, history_ok, snap,
                           cyc.positions)
       IN  /\ signal_counts' = r.th.counts
           /\ last_reset_date' = r.th.last
           /\ signals' = IF r.signal # EmptyDict THEN Append(signals, r.signal)
                                                 ELSE signals
           /\ emitted_today' = IF r.signal # EmptyDict
                               THEN [emitted_today EXCEPT ![r.signal.reason][symbol] = @ + 1]
                               ELSE emitted_today
           /\ ev' = [gen |-> "EMA", symbol |-> symbol, skipped |-> r.skipped,
                     price |-> Get(symbol_data, "price", 0),
                     position |-> Get(Get(cyc.positions, symbol, EmptyDict), "volume", 0),
                     ind |-> IF r.skipped THEN EmptyDict ELSE snap,
                     consulted |-> r.consulted, granted |-> r.granted,
                     sell_evaluated |-> r.sell_evaluated, last_before |-> "None",
                     signal |-> r.signal]
    /\ idx' = idx + 1
    /\ pc' = for_next(idx, ev'.skipped)
    /\ UNCHANGED <<now, max_signal_triggers, calls_today, trig, riskVars, confVars, calcVars,
                   last_signal, last_emitted, cyc, orders, cycles>>

(***************************************************************************)
(* MovingAverageStrategy.generate_signals evaluates the next watch-list    *)
(* symbol: skipped without enough K-line data, else _generate_signal.      *)
(***************************************************************************)
EvalSymbolMA(kline_ok, ma, current_price) ==
    /\ pc = "gen" /\ strategy = "MA"
    /\ idx <= Len(watch_list)
    /\ LET symbol == watch_list[idx]
           r == IF kline_ok
                THEN generate_signal(last_signal, symbol, ma, current_price, cyc.positions)
                ELSE [signal |-> EmptyDict, last |-> last_signal]
       IN  /\ last_signal' = r.last
           /\ last_emitted' = IF r.signal # EmptyDict
                              THEN [last_emitted EXCEPT ![symbol] = r.signal.order_type]
                              ELSE last_emitted
           /\ signals' = IF r.signal # EmptyDict THEN Append(signals, r.signal)
                                                 ELSE signals
           /\ ev' = [gen |-> "MA", symbol |-> symbol, skipped |-> ~kline_ok,
                     price |-> IF kline_ok THEN current_price ELSE 0,
                     position |-> Get(Get(cyc.positions, symbol, EmptyDict), "volume", 0),
                     ind |-> IF kline_ok THEN ma ELSE EmptyDict,
                     consulted |-> {}, granted |-> {},
                     sell_evaluated |-> FALSE,
                     last_before |-> Get(last_signal, symbol, "None"),
                     signal |-> r.signal]
    /\ idx' = idx + 1
    /\ pc' = for_next(idx, ev'.skipped)
    /\ UNCHANGED <<now, throttleVars, riskVars, confVars, calcVars, cyc, orders, cycles>>

(***************************************************************************)
(* QMTTrader.execute_order_async: the order the broker is sent, and the    *)
(* acknowledgment (seq > 0) it answers with.                               *)
(***************************************************************************)
execute_order_async(trade_signal, trade_quat, trade_price, trade_stockcode, ack) ==
    [stock_code |-> trade_stockcode,
     order_type |-> IF trade_signal = "buy" THEN "STOCK_BUY" ELSE "STOCK_SELL",
     order_volume |-> trade_quat, price |-> trade_price, success |-> ack]

(* Mutation of main()'s signal loop: a submission that failed is tried again. *)
for_signal_next_retry(pending, passed, success) ==
    IF passed /\ ~success THEN pending ELSE Tail(pending)

(***************************************************************************)
(* main(), 'for signal in signals': the signals still to be handled after  *)
(* the head one was checked and, if it passed, submitted. 'success' only   *)
(* decides whether a line is logged.                                       *)
(***************************************************************************)
for_signal_next(pending, passed, success) == Tail(pending)

(***************************************************************************)
(* main(), 'for signal in signals': the next signal is risk-checked and,   *)
(* if it passed, submitted. An exception leaves the loop body: the main    *)
(* loop's handler logs it and the remaining signals are dropped.           *)
(***************************************************************************)
RiskStep(ack) ==
    /\ pc = "risk" /\ signals # <<>>
    /\ LET signal == Head(signals)
           r == check_signal(Risk, now, signal, cyc.account_info, cyc.positions)
           a == check_signal_leaves(signal, cyc.account_info, cyc.positions)
       IN  /\ daily_trades' = r.rc.daily_trades
           /\ rc_today' = r.rc.today
           /\ chk' = Observe(signal, cyc.account_info, cyc.positions, r)
           /\ accepted_today' = IF r.passed THEN accepted_today + 1 ELSE accepted_today
           /\ IF r.kind = "raise"
              THEN /\ pc' = "idle"
                   /\ signals' = <<>>
                   /\ orders' = orders
                   /\ cyc' = NoCycle
              ELSE /\ pc' = pc
                   /\ signals' = for_signal_next(signals, r.passed, ack)
                   /\ cyc' = [cyc EXCEPT !.account_info = a.account_info,
                                          !.positions = a.positions]
                   /\ orders' = IF r.passed
                                THEN Append(orders,
                                        execute_order_async(a.signal["order_type"],
                                            a.signal["quantity"], a.signal["price"],
                                            a.signal["symbol"], ack))
                                ELSE orders
    /\ ev' = NoEv
    /\ UNCHANGED <<now, throttleVars, confVars, calcVars, last_signal, last_emitted, idx, cycles>>

(***************************************************************************)
(* All signals handled: the loop body ends (sleep until the next pass).    *)
(***************************************************************************)
EndCycle ==
    /\ pc = "risk" /\ signals = <<>>
    /\ pc' = "idle"
    /\ cyc' = NoCycle
    /\ ev' = NoEv
    /\ UNCHANGED <<now, throttleVars, riskVars, confVars, calcVars, last_signal, last_emitted, idx, signals,
                   orders, cycles>>

(***************************************************************************)
(* Signal lists for main()'s gate-then-submit loop taken on its own: dicts *)
(* that name the side under both the key check_signal reads ('action') and *)
(* the key main() passes on ('order_type').                                *)
(***************************************************************************)
GateSignals ==
    {[symbol |-> s, action |-> a, order_type |-> a, price |-> p, quantity |-> 100] :
        s \in Symbols, a \in {"buy", "sell"}, p \in {10, 600}}

GateSignalLists ==
    {<<>>} \cup {<<x>> : x \in GateSignals} \cup {<<x, y>> : x \in GateSignals, y \in GateSignals}

(***************************************************************************)
(* The loop body starts and generate_signals has returned signal_list:     *)
(* the snapshots are read and the signal loop is entered.                  *)
(***************************************************************************)
BeginCycleWith(account_info, positions, signal_list) ==
    /\ pc = "idle"
    /\ cycles < MaxCycles
    /\ cycles' = cycles + 1
    /\ cyc' = [account_info |-> account_info, positions |-> positions, session |-> TRUE]
    /\ idx' = Len(watch_list) + 1
    /\ signals' = signal_list
    /\ orders' = <<>>
    /\ pc' = "risk"
    /\ chk' = NoChk
    /\ UNCHANGED <<now, throttleVars, daily_trades, rc_today, accepted_today, confVars, calcVars,
                   last_signal, last_emitted, ev>>

(***************************************************************************)
(* Initial state: the objects as their constructors leave them.            *)
(***************************************************************************)
InitObjects ==
    /\ now = 0
    /\ signal_counts = ZeroCounts
    /\ last_reset_date = NoDate
    /\ max_signal_triggers \in 1..MaxTriggers
    /\ calls_today = ZeroCounts
    /\ trig = NoTrig
    /\ emitted_today = ZeroCounts
    /\ daily_trades = 0
    /\ rc_today = 0
    /\ chk = NoChk
    /\ accepted_today = 0
    /\ strategy \in {"MA", "EMA"}
    /\ check_trading_time \in BOOLEAN
    /\ last_signal = EmptyDict
    /\ last_emitted = [s \in Symbols |-> "None"]
    /\ pc = "idle"
    /\ cyc = NoCycle
    /\ idx = 0
    /\ signals = <<>>
    /\ orders = <<>>
    /\ cycles = 0
    /\ ev = NoEv

Init == InitObjects /\ ind = NoInd /\ qty = NoQty

ThrottleNext ==
    \/ Tick
    \/ \E symbol \in Symbols, signal_type \in SignalTypes :
           CallCheckSignalTrigger(symbol, signal_type)

(* check_signal_trigger called directly, for every configured budget *)
InitThrottle == Init /\ strategy = "EMA" /\ check_trading_time

SpecThrottle == InitThrottle /\ [][ThrottleNext]_vars

RiskNext ==
    \/ Tick
    \/ \E signal \in RiskSignals \cup GeneratorSignals,
          account_info \in AccountInfos,
          positions \in PositionsSnapshots :
           CallCheckSignal(signal, account_info, positions)

(* check_signal called directly *)
InitRisk == Init /\ strategy = "MA" /\ check_trading_time /\ max_signal_triggers = 1

SpecRisk == InitRisk /\ [][RiskNext]_vars

InitIndicator ==
    /\ InitObjects /\ strategy = "EMA" /\ check_trading_time
    /\ max_signal_triggers = 1
    /\ ind \in IndInputs /\ qty = NoQty

IndicatorNext == CallCompute

(* compute_temp_ema_and_std called on every series, price and window drawn *)
SpecIndicator == InitIndicator /\ [][IndicatorNext]_vars

InitQuantity ==
    /\ InitObjects /\ strategy = "EMA" /\ check_trading_time
    /\ max_signal_triggers = 1
    /\ ind = NoInd /\ qty \in QtyInputs

QuantityNext == CallBuyQuantity

(* the buy quantity computed for every order amount and price drawn *)
SpecQuantity == InitQuantity /\ [][QuantityNext]_vars

GateNext ==
    \/ Tick
    \/ \E account_info \in AccountInfos, positions \in PositionsSnapshots,
          signal_list \in GateSignalLists :
           BeginCycleWith(account_info, positions, signal_list)
    \/ \E ack \in BOOLEAN : RiskStep(ack)
    \/ EndCycle

InitGate == Init /\ strategy = "MA" /\ check_trading_time /\ max_signal_triggers = 1

(* main()'s signal loop run on every signal list drawn *)
SpecGate == InitGate /\ [][GateNext]_vars

Next ==
    \/ Tick
    \/ \E account_info \in CycleAccountInfos, positions \in PositionsSnapshots,
          weekday \in Weekdays, time \in TimesOfDay, close_ok \in BOOLEAN :
           BeginCycle(account_info, positions, weekday, time, close_ok)
    \/ \E symbol_data \in SymbolData, history_ok \in BOOLEAN :
          \E snap \in SnapshotsFor(symbol_data, history_ok) :
             EvalSymbolEMA(symbol_data, history_ok, snap)
    \/ \E kline_ok \in BOOLEAN :
          \E ma \in MovingAveragesFor(kline_ok), current_price \in MaPricesFor(kline_ok) :
             EvalSymbolMA(kline_ok, ma, current_price)
    \/ \E ack \in BOOLEAN : RiskStep(ack)
    \/ EndCycle

(* main() with either generator, the throttle budget at its default *)
InitMain == Init /\ check_trading_time /\ max_signal_triggers = 1

Spec == InitMain /\ [][Next]_vars

(***************************************************************************)
(* What the last check_signal call was given, read off the history chk.    *)
(***************************************************************************)
ChkWellFormed == RiskKeys \subseteq DOMAIN chk.signal
ChkValue == chk.signal["price"] * chk.signal["quantity"]
ChkBlacklisted == chk.signal["symbol"] \in Blacklist
ChkCapReached == chk.before >= MaxDailyTrades
ChkValueExceeds == ChkValue > MaxOrderValue
ChkIsBuy == chk.signal["action"] = "buy"
ChkPositionValue ==
    IF chk.signal["symbol"] \in DOMAIN chk.positions
    THEN chk.positions[chk.signal["symbol"]].market_value
    ELSE 0
ChkTotalAsset ==
    IF "total_asset" \in DOMAIN chk.account_info
    THEN chk.account_info["total_asset"] ELSE 1
ChkAvailableCash ==
    IF "available_cash" \in DOMAIN chk.account_info
    THEN chk.account_info["available_cash"] ELSE 0
ChkRatioExceeds ==
    /\ ChkIsBuy
    /\ ChkTotalAsset > 0
    /\ (ChkPositionValue + ChkValue) * MaxPositionRatioDen
           > MaxPositionRatioNum * ChkTotalAsset
ChkCashShort == ChkIsBuy /\ ChkValue > ChkAvailableCash

ChkFirstFailingRule ==
    CASE ChkBlacklisted -> "blacklist"
      [] ~ChkBlacklisted /\ ChkCapReached -> "max_daily_trades"
      [] ~ChkBlacklisted /\ ~ChkCapReached /\ ChkValueExceeds -> "max_order_value"
      [] ~ChkBlacklisted /\ ~ChkCapReached /\ ~ChkValueExceeds /\ ChkRatioExceeds
            -> "position_ratio"
      [] ~ChkBlacklisted /\ ~ChkCapReached /\ ~ChkValueExceeds /\ ~ChkRatioExceeds
            /\ ChkCashShort -> "insufficient_cash"
      [] OTHER -> "pass"

(***************************************************************************)
(* C1: check_signal tests blacklist, daily trade cap, order-value cap,     *)
(* then for buys position ratio and cash, and a rejection carries the      *)
(* reason of the first rule in that order that fails; a signal (with the   *)
(* keys check_signal reads) for a blacklisted symbol whose value exceeds   *)
(* max_order_value is rejected with the blacklist reason under every       *)
(* account and positions snapshot.                                         *)
(***************************************************************************)
C1_FirstFailingRuleWins ==
    /\ (chk.kind = "return" /\ ~chk.passed) => chk.reason = ChkFirstFailingRule
    /\ (chk.kind = "return" /\ chk.passed) => ChkFirstFailingRule = "pass"
    /\ (chk.kind # "none" /\ ChkWellFormed /\ ChkBlacklisted /\ ChkValueExceeds)
          => (chk.kind = "return" /\ ~chk.passed /\ chk.reason = "blacklist")

C1_Witness ==
    /\ chk.kind = "return" /\ ~chk.passed /\ chk.reason = "blacklist"
    /\ ChkValueExceeds /\ ChkCapReached
    /\ ChkIsBuy /\ ChkTotalAsset = 0

(***************************************************************************)
(* C3: a check_signal call that rejects (or raises) leaves daily_trades    *)
(* and the recorded date as they were; a call that accepts resets the      *)
(* counter if the date has changed and then adds exactly one.              *)
(***************************************************************************)
C3_CounterChangesOnlyOnAcceptance ==
    /\ (chk.kind = "raise" \/ (chk.kind = "return" /\ ~chk.passed))
          => (daily_trades = chk.before /\ rc_today = chk.before_today)
    /\ (chk.kind = "return" /\ chk.passed)
          => /\ rc_today = chk.date
             /\ daily_trades =
                  (IF chk.before_today = chk.date THEN chk.before ELSE 0) + 1

C3_Witness ==
    /\ chk.kind = "return" /\ chk.passed
    /\ chk.before_today # chk.date /\ chk.before > 0
    /\ daily_trades = 1

(***************************************************************************)
(* C4: a check_signal call made on a calendar day later than the recorded  *)
(* one does not count the earlier days' trades against the cap: a signal   *)
(* that passes every other rule is accepted.                               *)
(***************************************************************************)
C4_CapResetOnRollover ==
    (/\ chk.kind = "return"
     /\ chk.date > chk.before_today
     /\ ~ChkBlacklisted /\ ~ChkValueExceeds /\ ~ChkRatioExceeds /\ ~ChkCashShort)
        => chk.passed

(***************************************************************************)
(* C5: on one calendar day the first max_signal_triggers calls of          *)
(* check_signal_trigger for a (type, symbol) return true and every later   *)
(* call that day false; the first call after the date advances is true.    *)
(***************************************************************************)
C5_ThrottleExhaustion ==
    trig.symbol # "" => (trig.result <=> trig.nth <= max_signal_triggers)

C5_Witness ==
    /\ trig.date > 0 /\ trig.nth = 1 /\ trig.result
    /\ trig.prev = max_signal_triggers

(***************************************************************************)
(* C6: the counters are cleared exactly once per calendar day, by the      *)
(* first check_signal_trigger call that finds the date changed, which      *)
(* records the new date; no other step clears anything, so between resets  *)
(* every counter is non-decreasing, and none exceeds max_signal_triggers.  *)
(***************************************************************************)
C6_LazyResetOncePerDay ==
    [][/\ \A s \in Symbols, t \in SignalTypes :
              (CallCheckSignalTrigger(s, t) /\ last_reset_date # now)
                  => /\ last_reset_date' = now
                     /\ \A t2 \in SignalTypes, s2 \in Symbols :
                            signal_counts'[t2][s2] =
                                (IF t2 = t /\ s2 = s THEN 1 ELSE 0)
       /\ last_reset_date' # last_reset_date
              => (last_reset_date < now /\ last_reset_date' = now)
       /\ last_reset_date' = last_reset_date
              => \A t \in SignalTypes, s \in Symbols :
                     signal_counts'[t][s] >= signal_counts[t][s]
       /\ \A t \in SignalTypes, s \in Symbols :
              signal_counts'[t][s] <= max_signal_triggers
      ]_vars

C6_Witness ==
    /\ trig.date > 0 /\ trig.nth = 2 /\ trig.result
    /\ last_reset_date = trig.date
    /\ signal_counts[trig.signal_type][trig.symbol] = 2


(***************************************************************************)
(* What the last generator evaluation saw, read off the history ev.        *)
(***************************************************************************)
BuyTypes == {"extreme_buy", "trend_buy"}
SellTypes == {"partial_sell", "full_sell"}

EvEmitted == ev.signal # EmptyDict
EvGoldenCross ==
    /\ ev.ind.ema_short_yesterday < ev.ind.ema_long_yesterday
    /\ ev.ind.ema_short_today > ev.ind.ema_long_today
EvDeathCross ==
    /\ ev.ind.ema_short_yesterday > ev.ind.ema_long_yesterday
    /\ ev.ind.ema_short_today < ev.ind.ema_long_today

(* the condition of rule t on the indicator snapshot snap *)
RuleCond(t, snap) ==
    CASE t = "extreme_buy" ->
            snap.ema_short_today < snap.ema_long_today /\ ExtremeCond(snap)
      [] t = "trend_buy" ->
            /\ snap.ema_short_yesterday < snap.ema_long_yesterday
            /\ snap.ema_short_today > snap.ema_long_today
      [] t = "partial_sell" ->
            snap.ema_short_today > snap.ema_long_today /\ ExtremeCond(snap)
      [] t = "full_sell" ->
            /\ snap.ema_short_yesterday > snap.ema_long_yesterday
            /\ snap.ema_short_today < snap.ema_long_today

(* this step is EMAStdStrategy.generate_signals evaluating one symbol *)
EmaEvalStep == strategy = "EMA" /\ pc = "gen" /\ idx' = idx + 1

(***************************************************************************)
(* C2: for every intent either generator emits, check_signal returns a     *)
(* (verdict, reason) pair and raises nothing, whatever account and         *)
(* positions snapshot the broker side supplies.                            *)
(***************************************************************************)
C2_CheckSignalNeverRaises ==
    chk.kind # "none" => (chk.kind = "return" /\ chk.reason # "")

C8_BuyBeforeSell ==
    [][EmaEvalStep =>
        /\ Len(signals') <= Len(signals) + 1
        /\ ev'.sell_evaluated => (ev'.signal = EmptyDict \/ ev'.signal.reason \in SellTypes)
        /\ (ev'.signal # EmptyDict /\ ev'.signal.reason \in BuyTypes) =>
              /\ ~ev'.sell_evaluated
              /\ ev'.consulted \subseteq BuyTypes
              /\ \A t \in SellTypes, s \in Symbols :
                    signal_counts'[t][s] = signal_counts[t][s]
      ]_vars

(***************************************************************************)
(* C8, amended: as C8, but when a buy intent is produced no partial_sell   *)
(* or full_sell counter is incremented: each keeps its value, unless the   *)
(* buy rule's throttle call is the first of a new calendar day, whose      *)
(* reset clears every counter to 0.                                        *)
(***************************************************************************)
C8_BuyBeforeSellNoSellConsumed ==
    [][EmaEvalStep =>
        /\ Len(signals') <= Len(signals) + 1
        /\ ev'.sell_evaluated => (ev'.signal = EmptyDict \/ ev'.signal.reason \in SellTypes)
        /\ (ev'.signal # EmptyDict /\ ev'.signal.reason \in BuyTypes) =>
              /\ ~ev'.sell_evaluated
              /\ ev'.consulted \subseteq BuyTypes
              /\ \A t \in SellTypes, s \in Symbols :
                    signal_counts'[t][s] =
                       IF last_reset_date = now THEN signal_counts[t][s] ELSE 0
      ]_vars

(* a buy intent emitted for a held symbol whose snapshot also satisfies *)
(* the full-sell rule                                                    *)
C8_Witness ==
    /\ ev.gen = "EMA" /\ EvEmitted
    /\ ev.signal.reason = "extreme_buy"
    /\ ev.position > 0 /\ EvDeathCross
    /\ ~ev.sell_evaluated

(***************************************************************************)
(* C9: an EMA/Std intent of type T is emitted for a symbol in a cycle only *)
(* if rule T's condition holds on the snapshot, check_signal_trigger       *)
(* returned true for (T, symbol) in that cycle and the computed quantity   *)
(* is strictly positive; when a rule's condition is false the throttle is  *)
(* not consulted for it and its counter stays unchanged.                   *)
(***************************************************************************)
C9_EmissionNeedsConditionAndThrottle ==
    [][EmaEvalStep =>
        /\ ev'.signal # EmptyDict =>
              /\ ~ev'.skipped
              /\ RuleCond(ev'.signal.reason, ev'.ind)
              /\ ev'.signal.reason \in ev'.granted
              /\ ev'.signal.quantity > 0
        /\ ev'.granted \subseteq ev'.consulted
        /\ \A t \in SignalTypes :
              (ev'.skipped \/ ~RuleCond(t, ev'.ind)) =>
                 /\ t \notin ev'.consulted
                 /\ signal_counts'[t][ev'.symbol] = signal_counts[t][ev'.symbol]
      ]_vars

(***************************************************************************)
(* C9, amended: as C9, but when a rule's condition is false its counter is *)
(* not incremented: it keeps its value, unless another rule's throttle     *)
(* call in the same evaluation is the first of a new calendar day, whose   *)
(* reset clears every counter to 0.                                        *)
(***************************************************************************)
C9_EmissionNeedsConditionAndThrottleNoIncrement ==
    [][EmaEvalStep =>
        /\ ev'.signal # EmptyDict =>
              /\ ~ev'.skipped
              /\ RuleCond(ev'.signal.reason, ev'.ind)
              /\ ev'.signal.reason \in ev'.granted
              /\ ev'.signal.quantity > 0
        /\ ev'.granted \subseteq ev'.consulted
        /\ \A t \in SignalTypes :
              (ev'.skipped \/ ~RuleCond(t, ev'.ind)) =>
                 /\ t \notin ev'.consulted
                 /\ signal_counts'[t][ev'.symbol] =
                       IF last_reset_date = now \/ ev'.consulted = {}
                       THEN signal_counts[t][ev'.symbol] ELSE 0
      ]_vars

(* the extreme-buy condition held but the throttle denied it, and the *)
(* full-sell rule, granted, emitted the intent                         *)
C9_Witness ==
    /\ ev.gen = "EMA" /\ EvEmitted
    /\ ev.signal.reason = "full_sell"
    /\ "extreme_buy" \in ev.consulted \ ev.granted
    /\ "partial_sell" \notin ev.consulted

(***************************************************************************)
(* C10: with a fresh throttle and risk gate, a golden cross on a symbol    *)
(* with position 0 (at a price one lot can be bought for) makes the        *)
(* EMA/Std generator emit the trend-buy intent with quantity               *)
(* floor(orderAmount / price / 100) * 100, and check_signal on that        *)
(* intent, with ample cash and room, accepts it and leaves daily_trades 1. *)
(***************************************************************************)
C10_GoldenCrossBuyAccepted ==
    /\ (/\ ev.gen = "EMA" /\ ~ev.skipped /\ cycles = 1
        /\ ev.position = 0 /\ EvGoldenCross
        /\ (OrderAmount \div (ev.price * LotSize)) * LotSize > 0)
          => ev.signal = [symbol |-> ev.symbol, order_type |-> "STOCK_BUY",
                          price |-> ev.price,
                          quantity |-> (OrderAmount \div (ev.price * LotSize)) * LotSize,
                          reason |-> "trend_buy"]
    /\ (/\ chk.kind # "none" /\ cycles = 1
        /\ "reason" \in DOMAIN chk.signal
        /\ chk.signal["reason"] = "trend_buy"
        /\ chk.signal["symbol"] \notin Blacklist
        /\ chk.signal["symbol"] \notin DOMAIN chk.positions)
          => (chk.kind = "return" /\ chk.passed /\ daily_trades = 1)


(***************************************************************************)
(* C11: with a fresh throttle and risk gate, a death cross (and no extreme *)
(* deviation) on a symbol held at 500 makes the EMA/Std generator emit the *)
(* full-sell intent with quantity 500, and check_signal accepts it; a      *)
(* sell-side intent is never rejected by the position-ratio or cash rule,  *)
(* so one that passes blacklist, daily cap and order-value cap is          *)
(* accepted whatever the account.                                          *)
(***************************************************************************)
C11_DeathCrossSellAccepted ==
    /\ (/\ ev.gen = "EMA" /\ ~ev.skipped /\ cycles = 1
        /\ ev.position = 500 /\ EvDeathCross
        /\ ~RuleCond("extreme_buy", ev.ind))
          => ev.signal = [symbol |-> ev.symbol, order_type |-> "STOCK_SELL",
                          price |-> ev.price, quantity |-> 500,
                          reason |-> "full_sell"]
    /\ (/\ chk.kind # "none"
        /\ "order_type" \in DOMAIN chk.signal
        /\ chk.signal["order_type"] \in {"sell", "STOCK_SELL"})
          => /\ ~(chk.kind = "return" /\ ~chk.passed
                    /\ chk.reason \in {"position_ratio", "insufficient_cash"})
             /\ (/\ chk.signal["symbol"] \notin Blacklist
                 /\ chk.before < MaxDailyTrades
                 /\ chk.signal["price"] * chk.signal["quantity"] <= MaxOrderValue)
                   => (chk.kind = "return" /\ chk.passed)


(***************************************************************************)
(* C12: in one generate_signals batch a failure on one symbol (too little  *)
(* history, a missing or zero price, an exception) omits only that         *)
(* symbol's result: the batch goes on to the next watch-list symbol and    *)
(* ends only after the last one, and the signals of the symbols evaluated  *)
(* are returned in watch-list order.                                       *)
(***************************************************************************)
C12_FailureIsolation ==
    [][/\ (pc = "gen" /\ idx' = idx + 1) =>
             /\ ev'.symbol = watch_list[idx]
             /\ ev'.skipped => signals' = signals
             /\ ev'.signal = EmptyDict => signals' = signals
             /\ ev'.signal # EmptyDict =>
                   /\ signals' = Append(signals, ev'.signal)
                   /\ ev'.signal.symbol = watch_list[idx]
             /\ pc' = IF idx < Len(watch_list) THEN "gen" ELSE "risk"
       /\ (pc = "gen" /\ pc' # "gen") => (idx = Len(watch_list) /\ idx' = idx + 1)
       /\ \A i, j \in 1..Len(signals') :
             (i < j) =>
                \E a, b \in 1..Len(watch_list) :
                   /\ a < b
                   /\ watch_list[a] = signals'[i].symbol
                   /\ watch_list[b] = signals'[j].symbol
      ]_vars

(* the first symbol failed and the batch is still going on *)
C12_Witness ==
    /\ ev.gen # "" /\ ev.symbol = "AAA" /\ ev.skipped
    /\ pc = "gen" /\ idx = 2


(***************************************************************************)
(* What the compute_temp_ema_and_std call was given, read off the history  *)
(* ind.                                                                    *)
(***************************************************************************)
IndLen == Len(ind.close_series)
IndRequired == Max(ind.long_term, ind.std_term) + 2

(* the working series: the history with its last element replaced by the *)
(* live price                                                              *)
IndWorking ==
    [i \in 1..IndLen |-> IF i = IndLen THEN ind.last_price ELSE ind.close_series[i]]

(* ema[first] = price[first], ema[i] = a * price[i] + (1 - a) * ema[i - 1], *)
(* a = 2 / (span + 1); indices from 1                                        *)
RECURSIVE ClaimedEma(_, _, _)
ClaimedEma(price, span, i) ==
    IF i = 1 THEN Rat(price[1], 1)
    ELSE RatAdd(RatMul(Rat(2, span + 1), Rat(price[i], 1)),
                RatMul(Rat(span - 1, span + 1), ClaimedEma(price, span, i - 1)))

(***************************************************************************)
(* C13: compute_temp_ema_and_std fails with the insufficient-history error *)
(* on every series of length max(long_term, std_term) + 1 or shorter, and  *)
(* returns a snapshot on every series of length max(long_term, std_term)   *)
(* + 2 or longer.                                                          *)
(***************************************************************************)
C13_InsufficientHistoryBoundary ==
    ind.kind # "none" =>
        /\ IndLen <= IndRequired - 1 =>
              (ind.kind = "raise" /\ ind.error = "ValueError" /\ ind.snap = EmptyDict)
        /\ IndLen >= IndRequired =>
              /\ ind.kind = "return"
              /\ DOMAIN ind.snap = {"ema_short_today", "ema_long_today", "diff_today",
                                    "std_today", "ema_short_yesterday",
                                    "ema_long_yesterday"}

(* a series of exactly the required length, the deviation window deciding *)
C13_Witness ==
    /\ ind.kind = "return"
    /\ IndLen = IndRequired
    /\ ind.std_term > ind.long_term

(***************************************************************************)
(* C14: the EMA values returned are those of the recursion ema[0] =        *)
(* price[0], ema[i] = a*price[i] + (1-a)*ema[i-1], a = 2/(span+1), over    *)
(* the history with only its last element replaced by the live price:      *)
(* 'today' at the last index, 'yesterday' at the second-to-last; the       *)
(* difference is short minus long.                                         *)
(***************************************************************************)
C14_EmaRecursion ==
    ind.kind = "return" =>
        /\ ind.snap.ema_short_today = ClaimedEma(IndWorking, ind.short_term, IndLen)
        /\ ind.snap.ema_long_today = ClaimedEma(IndWorking, ind.long_term, IndLen)
        /\ ind.snap.ema_short_yesterday =
              ClaimedEma(IndWorking, ind.short_term, IndLen - 1)
        /\ ind.snap.ema_long_yesterday =
              ClaimedEma(IndWorking, ind.long_term, IndLen - 1)
        /\ ind.snap.diff_today =
              RatSub(ind.snap.ema_short_today, ind.snap.ema_long_today)

(* the live price differs from the last close and moves both EMAs *)
C14_Witness ==
    /\ ind.kind = "return"
    /\ ind.last_price # ind.close_series[IndLen]
    /\ ind.short_term = 2 /\ ind.long_term = 3
    /\ ind.snap.ema_short_today # ind.snap.ema_short_yesterday
    /\ ind.snap.ema_long_today # ind.snap.ema_long_yesterday

(***************************************************************************)
(* C15: for every std_term and every accepted series, std_today is         *)
(* undefined if fewer than std_term diff samples exist at the last index   *)
(* and a defined finite number otherwise.                                  *)
(***************************************************************************)
C15_StdDefinedIffWindowFilled ==
    ind.kind = "return" =>
        /\ IndLen < ind.std_term => ind.snap.std_today = RatNaN
        /\ IndLen >= ind.std_term =>
              (ind.snap.std_today[2] > 0 /\ ind.snap.std_today[1] >= 0)

(***************************************************************************)
(* C15, amended: every accepted series has at least std_term diff samples  *)
(* at the last index; std_today is a defined finite number when std_term   *)
(* >= 2, and undefined when std_term = 1 (the sample deviation of a single *)
(* value).                                                                 *)
(***************************************************************************)
C15_StdDefinedIffWindowOfTwo ==
    ind.kind = "return" =>
        /\ IndLen >= ind.std_term
        /\ ind.std_term >= 2 =>
              (ind.snap.std_today[2] > 0 /\ ind.snap.std_today[1] >= 0)
        /\ ind.std_term = 1 => ind.snap.std_today = RatNaN

(* a filled window of three with a positive deviation *)
C15_Witness ==
    /\ ind.kind = "return"
    /\ ind.std_term = 3
    /\ ind.snap.std_today[2] > 0 /\ ind.snap.std_today[1] > 0


(***************************************************************************)
(* C16: when the snapshot's std_today is undefined, neither the            *)
(* extreme-buy nor the partial-sell rule asks the throttle or emits an     *)
(* intent, while the golden-cross rule is still evaluated (the throttle is *)
(* asked exactly on a golden cross, and a granted positive quantity is     *)
(* emitted) and so is the death-cross rule for a held symbol.              *)
(***************************************************************************)
C16_UndefinedStdDisablesRules ==
    (ev.gen = "EMA" /\ ~ev.skipped /\ ev.ind.std_today = NaN) =>
        /\ ev.consulted \cap {"extreme_buy", "partial_sell"} = {}
        /\ EvEmitted => ev.signal.reason \in {"trend_buy", "full_sell"}
        /\ "trend_buy" \in ev.consulted <=> EvGoldenCross
        /\ ("trend_buy" \in ev.granted
               /\ (OrderAmount \div (ev.price * LotSize)) * LotSize > 0)
              => (EvEmitted /\ ev.signal.reason = "trend_buy")
        /\ "full_sell" \in ev.consulted <=> (EvDeathCross /\ ev.position > 0)
        /\ ("full_sell" \in ev.granted /\ (ev.position \div LotSize) * LotSize > 0)
              => (EvEmitted /\ ev.signal.reason = "full_sell")

(* the short EMA is below the long one with an undefined deviation, and *)
(* the death cross still sells                                           *)
C16_Witness ==
    /\ ev.gen = "EMA" /\ ~ev.skipped /\ ev.ind.std_today = NaN
    /\ ev.ind.diff_today # 0
    /\ EvDeathCross /\ EvEmitted /\ ev.signal.reason = "full_sell"


(***************************************************************************)
(* C17: with the trading-time check enabled, a generate_signals cycle of   *)
(* either generator started on a weekend or outside the 09:30-11:30 and    *)
(* 13:00-15:00 windows returns no signals and evaluates no rule (no        *)
(* throttle budget consumed, no last-signal memory updated); with the      *)
(* check disabled the cycle goes to its watch list whatever the clock.     *)
(***************************************************************************)
C17_SessionGate ==
    [][/\ (check_trading_time /\ pc # "idle" /\ ~cyc.session) =>
             /\ pc = "risk" /\ signals = <<>> /\ ev = NoEv
             /\ signal_counts' = signal_counts
             /\ last_signal' = last_signal
             /\ signals' = <<>> /\ ev' = NoEv
       /\ (~check_trading_time /\ pc = "idle" /\ pc' # "idle" /\ strategy = "MA") =>
             pc' = "gen"
      ]_vars


(***************************************************************************)
(* What the last MA-Crossover evaluation saw, read off the history ev.     *)
(***************************************************************************)
EvMaGolden ==
    /\ ev.ind.prev_fast # NaN /\ ev.ind.prev_slow # NaN
    /\ ev.ind.current_fast # NaN /\ ev.ind.current_slow # NaN
    /\ ev.ind.prev_fast <= ev.ind.prev_slow
    /\ ev.ind.current_fast > ev.ind.current_slow
EvMaDeath ==
    /\ ev.ind.prev_fast # NaN /\ ev.ind.prev_slow # NaN
    /\ ev.ind.current_fast # NaN /\ ev.ind.current_slow # NaN
    /\ ev.ind.prev_fast >= ev.ind.prev_slow
    /\ ev.ind.current_fast < ev.ind.current_slow
EvLastAfter == IF ev.symbol \in DOMAIN last_signal THEN last_signal[ev.symbol] ELSE "None"

(***************************************************************************)
(* C18: for a symbol it evaluates, the MA-Crossover generator emits a buy  *)
(* of the configured volume exactly when prevFast <= prevSlow, currentFast *)
(* > currentSlow, nothing is held and the last side is not buy; a sell of  *)
(* the held volume exactly when prevFast >= prevSlow, currentFast <        *)
(* currentSlow, the holding is positive and the last side is not sell;     *)
(* never both, and the last side becomes the emitted one (and stays as it  *)
(* was without an emission).                                               *)
(***************************************************************************)
C18_MaCrossoverRules ==
    (ev.gen = "MA" /\ ~ev.skipped) =>
        /\ (ev.signal = [order_type |-> "buy", quantity |-> DefaultVolume,
                         price |-> ev.price, symbol |-> ev.symbol])
              <=> (EvMaGolden /\ ev.position <= 0 /\ ev.last_before # "buy")
        /\ (ev.signal = [order_type |-> "sell", quantity |-> ev.position,
                         price |-> ev.price, symbol |-> ev.symbol])
              <=> (EvMaDeath /\ ev.position > 0 /\ ev.last_before # "sell")
        /\ \/ ev.signal = EmptyDict /\ EvLastAfter = ev.last_before
           \/ ev.signal # EmptyDict /\ ev.signal.order_type \in {"buy", "sell"}
                 /\ EvLastAfter = ev.signal.order_type

(* a buy on a cross that starts from equal averages *)
C18_Witness ==
    /\ ev.gen = "MA" /\ EvEmitted
    /\ ev.signal.order_type = "buy"
    /\ ev.ind.prev_fast = ev.ind.prev_slow
    /\ last_signal[ev.symbol] = "buy"

(***************************************************************************)
(* C19: last_signal[symbol] changes only in a step in which the            *)
(* MA-Crossover generator emits a signal for that symbol, and then to the  *)
(* emitted side; new position and account snapshots, check_signal          *)
(* decisions and order submissions never change it.                        *)
(***************************************************************************)
C19_LastSignalOnlyByEmission ==
    [][\A s \in Symbols :
          Get(last_signal', s, "None") # Get(last_signal, s, "None") =>
             /\ strategy = "MA" /\ pc = "gen" /\ idx' = idx + 1
             /\ ev'.gen = "MA" /\ ev'.symbol = s
             /\ ev'.signal # EmptyDict
             /\ ev'.signal.symbol = s
             /\ last_signal'[s] = ev'.signal.order_type
             /\ Len(signals') = Len(signals) + 1
      ]_vars

(* the memory flips from buy to sell on an emitted sell *)
C19_Witness ==
    /\ ev.gen = "MA" /\ EvEmitted
    /\ ev.last_before = "buy"
    /\ ev.signal.order_type = "sell"
    /\ last_signal[ev.symbol] = "sell"


(***************************************************************************)
(* C20: the EMA/Std buy quantity is floor(orderAmount / price / 100) *     *)
(* 100 for every positive price and order amount: a whole number of lots   *)
(* whose value does not exceed the order amount, while one lot more would  *)
(* (orderAmount 50000 at price 333 gives 100).                             *)
(***************************************************************************)
C20_FloorToLot ==
    qty.done =>
        /\ qty.quantity >= 0
        /\ qty.quantity % LotSize = 0
        /\ qty.quantity * qty.current_price <= qty.order_amount
        /\ (qty.quantity + LotSize) * qty.current_price > qty.order_amount
        /\ (qty.order_amount = 50000 /\ qty.current_price = 333) => qty.quantity = 100

C20_Witness ==
    /\ qty.done
    /\ qty.order_amount = 50000 /\ qty.current_price = 333
    /\ qty.quantity = 100

GateStep == pc = "risk" /\ signals # <<>> /\ now' = now

(* the order main() hands over for signal sig *)
OrderOf(sig, order) ==
    /\ order.stock_code = sig["symbol"]
    /\ order.order_volume = sig["quantity"]
    /\ order.price = sig["price"]
    /\ order.order_type = (IF sig["order_type"] = "buy" THEN "STOCK_BUY" ELSE "STOCK_SELL")

(***************************************************************************)
(* C22: gate then submit. Within a pass of the loop, handling a pending    *)
(* signal hands exactly one order to execute_order_async, the signal's     *)
(* own, if check_signal accepted it, and none if it rejected it or raised; *)
(* either way the signal leaves the pending list, whatever the             *)
(* acknowledgment, so an accepted signal is submitted once and a failed    *)
(* submission is not tried again; no other step submits anything.          *)
(***************************************************************************)
C22_GateThenSubmit ==
    [][/\ GateStep =>
            /\ chk'.signal = Head(signals)
            /\ (chk'.kind = "return" /\ chk'.passed)
                  => /\ Len(orders') = Len(orders) + 1
                     /\ SubSeq(orders', 1, Len(orders)) = orders
                     /\ OrderOf(Head(signals), orders'[Len(orders')])
                     /\ signals' = Tail(signals)
            /\ (chk'.kind = "return" /\ ~chk'.passed)
                  => (orders' = orders /\ signals' = Tail(signals))
            /\ chk'.kind = "raise" => (orders' = orders /\ signals' = <<>>)
       /\ ~GateStep => (orders' = orders \/ (pc = "idle" /\ orders' = <<>>))]_vars

C22_Witness ==
    /\ pc = "risk" /\ signals = <<>>
    /\ Len(orders) = 1 /\ ~orders[1].success
    /\ chk.kind = "return" /\ ~chk.passed /\ chk.reason = "max_order_value"
    /\ daily_trades = 1

(***************************************************************************)
(* C23: daily cap safety. With the calendar date never moving backward,    *)
(* the check_signal calls that accept within one calendar day never        *)
(* number more than max_daily_trades.                                      *)
(***************************************************************************)
C23_DailyCapSafety == accepted_today <= MaxDailyTrades

C23_Witness ==
    /\ now > 0 /\ rc_today = now
    /\ accepted_today = MaxDailyTrades
    /\ chk.date = now /\ chk.before_today = now
    /\ chk.kind = "return" /\ ~chk.passed /\ chk.reason = "max_daily_trades"

(* rule t's quantity rounds to zero at evaluation e: the price above       *)
(* orderAmount / 100 for a buy, position * sellRatio below 100 for a       *)
(* partial sell, the position below 100 for a full sell                    *)
ZeroQuantity(t, e) ==
    CASE t \in BuyTypes -> e.price * LotSize > OrderAmount
      [] t = "partial_sell" -> e.position * SellRatioNum < LotSize * SellRatioDen
      [] t = "full_sell" -> e.position < LotSize

(* evaluation e came to rule t: a sell rule is looked at only for a held   *)
(* symbol and when no buy rule emitted                                     *)
RuleReached(t, e) ==
    ~e.skipped /\ (t \in SellTypes => (e.sell_evaluated /\ e.position > 0))

EmittedBy(t, e) == e.signal # EmptyDict /\ e.signal.reason = t

(***************************************************************************)
(* C24: the throttle is consumed before the quantity check. When rule t's  *)
(* condition holds for a symbol, the throttle still has budget for         *)
(* (t, symbol) and the quantity rounds to zero, the throttle grants the    *)
(* call and counts it, and rule t emits no intent; while the calendar day  *)
(* lasts no counter decreases, and a rule whose counter has reached        *)
(* max_signal_triggers is neither granted nor emits for that symbol.       *)
(***************************************************************************)
C24_ThrottleConsumedBeforeQuantity ==
    [][/\ EmaEvalStep =>
            \A t \in SignalTypes :
               LET counted == IF last_reset_date = now
                              THEN signal_counts[t][watch_list[idx]] ELSE 0
               IN  /\ (/\ RuleReached(t, ev') /\ RuleCond(t, ev'.ind)
                        /\ counted < max_signal_triggers
                        /\ ZeroQuantity(t, ev'))
                          => /\ t \in ev'.granted
                             /\ ~EmittedBy(t, ev')
                             /\ signal_counts'[t][watch_list[idx]] = counted + 1
                   /\ counted >= max_signal_triggers
                          => (t \notin ev'.granted /\ ~EmittedBy(t, ev'))
       /\ (last_reset_date = now /\ now' = now)
            => \A t \in SignalTypes, s \in Symbols :
                  signal_counts'[t][s] >= signal_counts[t][s]
      ]_vars

(* the extreme-buy rule granted at a price no lot can be bought at: its    *)
(* budget is spent and no intent comes of the evaluation                    *)
C24_Witness ==
    /\ ev.gen = "EMA" /\ ~ev.skipped
    /\ ev.price = 600 /\ ZeroQuantity("extreme_buy", ev)
    /\ RuleCond("extreme_buy", ev.ind)
    /\ "extreme_buy" \in ev.granted
    /\ ~EvEmitted
    /\ signal_counts["extreme_buy"][ev.symbol] = max_signal_triggers
    /\ last_reset_date = now

(***************************************************************************)
(* C25: within one calendar day, over however many passes of the loop the  *)
(* condition of a rule keeps holding, the EMA/Std generator emits at most  *)
(* max_signal_triggers intents per (signal type, symbol).                  *)
(***************************************************************************)
C25_EmissionsPerDayBounded ==
    \A t \in SignalTypes, s \in Symbols : emitted_today[t][s] <= max_signal_triggers

(* the trend-buy rule emitted for AAA in the first pass; in the second, on *)
(* the same day, its condition holds again at a buyable price and the      *)
(* throttle denies it                                                      *)
C25_Witness ==
    /\ ev.gen = "EMA" /\ ~ev.skipped /\ cycles = 2
    /\ ev.symbol = "AAA" /\ ev.price = 10
    /\ RuleCond("trend_buy", ev.ind)
    /\ "trend_buy" \in ev.consulted \ ev.granted
    /\ ~EvEmitted
    /\ emitted_today["trend_buy"]["AAA"] = max_signal_triggers
    /\ last_reset_date = now

(* this step is MovingAverageStrategy.generate_signals evaluating one symbol *)
MaEvalStep == strategy = "MA" /\ pc = "gen" /\ idx' = idx + 1

(***************************************************************************)
(* C26: MA-Crossover emissions alternate per symbol. An intent emitted for *)
(* a symbol never has the side of the intent emitted for that symbol       *)
(* before it, whatever the positions snapshots show between the two and    *)
(* whatever became of the earlier intent at the risk gate; and no other    *)
(* step emits an MA-Crossover intent.                                      *)
(***************************************************************************)
C26_MaEmissionsAlternate ==
    [][/\ (MaEvalStep /\ ev'.signal # EmptyDict)
            => /\ ev'.signal.order_type # last_emitted[watch_list[idx]]
               /\ ev'.signal.symbol = watch_list[idx]
               /\ ev'.signal.order_type \in {"buy", "sell"}
       /\ (~MaEvalStep \/ ev'.signal = EmptyDict) => last_emitted' = last_emitted
      ]_vars

(* after a buy for AAA a golden cross meets AAA unheld again in the next  *)
(* pass, and no second buy is emitted                                      *)
C26_Witness ==
    /\ ev.gen = "MA" /\ ~ev.skipped /\ cycles = 2
    /\ ev.symbol = "AAA" /\ ev.position = 0
    /\ EvMaGolden
    /\ last_emitted["AAA"] = "buy"
    /\ ~EvEmitted

(* the positions snapshot of the current pass shows no holding of symbol s *)
NoHolding(s) == Get(Get(cyc.positions, s, EmptyDict), "volume", 0) <= 0

(***************************************************************************)
(* C27: the MA-Crossover memory is not re-armed by the risk gate or by     *)
(* fills. Whenever last_signal[s] is buy and the positions snapshot shows  *)
(* no holding of s, evaluating s emits nothing and leaves last_signal      *)
(* as it is, whatever the moving averages do; and no step outside the      *)
(* generator changes last_signal. So no signal for s is emitted for as     *)
(* long as its holding stays zero.                                         *)
(***************************************************************************)
C27_BuyMemoryNotRearmed ==
    [][/\ (/\ MaEvalStep
            /\ Get(last_signal, watch_list[idx], "None") = "buy"
            /\ NoHolding(watch_list[idx]))
           => (ev'.signal = EmptyDict /\ signals' = signals /\ last_signal' = last_signal)
       /\ ~MaEvalStep => last_signal' = last_signal
      ]_vars

(* the buy emitted for AAA in the first pass was never submitted; in the   *)
(* second pass AAA is still unheld, the averages cross upward again, and   *)
(* nothing is emitted                                                      *)
C27_Witness ==
    /\ ev.gen = "MA" /\ ~ev.skipped /\ cycles = 2
    /\ ev.symbol = "AAA" /\ ev.last_before = "buy"
    /\ NoHolding("AAA") /\ EvMaGolden
    /\ ~EvEmitted /\ signals = <<>>
    /\ Get(last_signal, "AAA", "None") = "buy"
    /\ daily_trades = 0

(* the last check_signal call sat exactly on the three buy-side limits *)
ChkOnAllLimits ==
    /\ ChkWellFormed /\ ChkIsBuy
    /\ ChkValue = MaxOrderValue
    /\ ChkTotalAsset > 0
    /\ (ChkPositionValue + ChkValue) * MaxPositionRatioDen
          = MaxPositionRatioNum * ChkTotalAsset
    /\ ChkValue = ChkAvailableCash

(***************************************************************************)
(* C28: risk-rule boundaries. A rejection for the daily cap means          *)
(* daily_trades had reached max_daily_trades (>=), and a non-blacklisted   *)
(* signal meeting the counter at the cap is rejected for it; a rejection   *)
(* for order value, position ratio or cash means strict excess over the    *)
(* limit; and a buy whose value equals max_order_value, whose resulting    *)
(* ratio equals max_position_ratio and whose value equals available_cash   *)
(* is accepted when daily_trades is below the cap and the symbol is not    *)
(* blacklisted.                                                            *)
(***************************************************************************)
C28_RiskRuleBoundaries ==
    /\ (chk.kind = "return" /\ ~chk.passed) =>
          /\ chk.reason = "max_daily_trades" => chk.before >= MaxDailyTrades
          /\ chk.reason = "max_order_value" => ChkValue > MaxOrderValue
          /\ chk.reason = "position_ratio" =>
                (ChkIsBuy /\ (ChkPositionValue + ChkValue) * MaxPositionRatioDen
                                > MaxPositionRatioNum * ChkTotalAsset)
          /\ chk.reason = "insufficient_cash" =>
                (ChkIsBuy /\ ChkValue > ChkAvailableCash)
    /\ (chk.kind # "none" /\ ChkWellFormed /\ ~ChkBlacklisted
           /\ chk.before >= MaxDailyTrades)
          => (chk.kind = "return" /\ ~chk.passed /\ chk.reason = "max_daily_trades")
    /\ (chk.kind # "none" /\ ChkOnAllLimits /\ ~ChkBlacklisted
           /\ chk.before < MaxDailyTrades)
          => (chk.kind = "return" /\ chk.passed)

(* a buy on all three limits at once, accepted as the last trade the cap *)
(* allows                                                                 *)
C28_Witness ==
    /\ chk.kind = "return" /\ chk.passed
    /\ ChkOnAllLimits
    /\ chk.before = MaxDailyTrades - 1
    /\ chk.before_today = chk.date
    /\ daily_trades = MaxDailyTrades

(* the largest multiple of 100 not above num / den *)
FloorToLot(num, den) == CHOOSE q \in 0..num :
    /\ q % LotSize = 0
    /\ q * den <= num
    /\ (q + LotSize) * den > num

(***************************************************************************)
(* C29: the EMA/Std sell rules require a position. For a symbol whose      *)
(* position is not positive no sell intent is emitted, the throttle is not *)
(* asked for partial_sell or full_sell and neither counter is incremented; *)
(* for a held symbol an emitted partial sell has quantity                  *)
(* floor(position * sellRatio / 100) * 100 and an emitted full sell        *)
(* floor(position / 100) * 100, so a sell never exceeds the position.      *)
(***************************************************************************)
C29_SellNeedsPosition ==
    [][EmaEvalStep =>
        /\ (~ev'.skipped /\ ev'.position <= 0) =>
              /\ ~(ev'.signal # EmptyDict /\ ev'.signal.reason \in SellTypes)
              /\ ev'.consulted \cap SellTypes = {}
              /\ \A t \in SellTypes :
                    signal_counts'[t][watch_list[idx]] <= signal_counts[t][watch_list[idx]]
        /\ (ev'.signal # EmptyDict /\ ev'.signal.reason \in SellTypes) =>
              /\ ev'.position > 0
              /\ ev'.signal.order_type = "STOCK_SELL"
              /\ ev'.signal.reason = "partial_sell" =>
                    ev'.signal.quantity
                       = FloorToLot(ev'.position * SellRatioNum, SellRatioDen)
              /\ ev'.signal.reason = "full_sell" =>
                    ev'.signal.quantity = FloorToLot(ev'.position, 1)
              /\ ev'.signal.quantity > 0
              /\ ev'.signal.quantity <= ev'.position
      ]_vars

(* half of a 500-share position, rounded down to 200, is sold *)
C29_Witness ==
    /\ ev.gen = "EMA" /\ EvEmitted
    /\ ev.signal.reason = "partial_sell"
    /\ ev.position = 500 /\ ev.signal.quantity = 200
    /\ signal_counts["partial_sell"][ev.symbol] = 1
    /\ signal_counts["full_sell"][ev.symbol] = 0

(***************************************************************************)
(* C30: throttle frame. A check_signal_trigger(symbol, type) call made on  *)
(* the date of the last reset (so that it clears nothing) leaves every     *)
(* counter as it is when it returns false, and when it returns true adds   *)
(* one to the counter of (type, symbol) and leaves the counter of every    *)
(* other symbol and every other signal type as it is.                      *)
(***************************************************************************)
C30_ThrottleFrame ==
    [][\A s \in Symbols, t \in SignalTypes :
          (CallCheckSignalTrigger(s, t) /\ last_reset_date = now)
             => /\ last_reset_date' = last_reset_date
                /\ ~trig'.result => signal_counts' = signal_counts
                /\ trig'.result =>
                      \A t2 \in SignalTypes, s2 \in Symbols :
                         signal_counts'[t2][s2] =
                            signal_counts[t2][s2] + (IF t2 = t /\ s2 = s THEN 1 ELSE 0)
      ]_vars

(* a granted call for one pair while another symbol's counter of the same *)
(* type and another type's counter for the same symbol stand at one        *)
C30_Witness ==
    /\ trig.result /\ trig.signal_type = "trend_buy" /\ trig.symbol = "AAA"
    /\ trig.date = last_reset_date /\ now = trig.date
    /\ signal_counts["trend_buy"]["AAA"] = trig.prev + 1
    /\ signal_counts["trend_buy"]["BBB"] = 1
    /\ signal_counts["full_sell"]["AAA"] = 1

(***************************************************************************)
(* C31: at most one evaluation cycle is in flight. A pass of the loop      *)
(* starts, and reads the account and positions snapshots, only when the    *)
(* previous pass has returned: no symbol is left to evaluate, no signal is *)
(* pending and its snapshots are dropped; the snapshots are read nowhere   *)
(* else; and between passes nothing reads or writes the signal counters,   *)
(* the daily trade counter or the last-signal memory.                      *)
(***************************************************************************)
C31_OneCycleInFlight ==
    [][/\ cycles' # cycles
            => /\ cycles' = cycles + 1
               /\ pc = "idle" /\ signals = <<>> /\ cyc = NoCycle
               /\ pc' \in {"gen", "risk"}
       /\ (cyc' # cyc /\ cycles' = cycles) => (pc # "idle" /\ pc' = "idle" /\ cyc' = NoCycle)
       /\ pc' = "idle" => (signals' = <<>> /\ cyc' = NoCycle)
       /\ (pc = "idle" /\ cycles' = cycles)
            => /\ signal_counts' = signal_counts
               /\ last_reset_date' = last_reset_date
               /\ daily_trades' = daily_trades /\ rc_today' = rc_today
               /\ last_signal' = last_signal
               /\ chk' = chk /\ ev' = ev
      ]_vars

(* the second pass is under way: the first emitted the buy for AAA and was *)
(* left at the risk gate; this one kept silent on AAA and has the buy for  *)
(* BBB pending                                                             *)
C31_Witness ==
    /\ strategy = "MA" /\ cycles = 2 /\ pc = "risk"
    /\ Len(signals) = 1 /\ signals[1].symbol = "BBB" /\ signals[1].order_type = "buy"
    /\ last_emitted["AAA"] = "buy"
    /\ Get(last_signal, "AAA", "None") = "buy"
    /\ cyc # NoCycle

====
